---- MODULE Spec2Model ----
(***************************************************************************)
(* Cortex memory server: the store (memories, memory_embeddings), the      *)
(* memory.add / memory.update / memory.delete handlers, the TTL sweeper,   *)
(* the re-embed engine and the JSONL export/import codec.                  *)
(*                                                                         *)
(* Time is counted in whole days.  A nullable column or a Go nil pointer   *)
(* is a sequence of length 0 (None) or 1 (Some(x)).                        *)
(***************************************************************************)
EXTENDS Integers, Sequences, FiniteSets, TLC

\* ------------------------------------------------------------------ bounds
MaxId == 2
MaxTime == 2
MaxLines == 1

\* ------------------------------------------------------- option encoding
None == << >>
Some(x) == << x >>

\* ----------------------------------------------------------- partitions
P == [tenant |-> "local", workspace |-> "default"]
Q == [tenant |-> "acme", workspace |-> "proj"]
Partitions == {P, Q}

\* ------------------------------------------------------------- gateway
PrimaryModel == "m1"
SecondModel == "m2"
MultiModels == {PrimaryModel, SecondModel}

Texts == {"a", "b"}

\* provider.Embed: a deterministic per-model vector of the model's dimensionality
\* (vectors of integer length, so that cosine similarities are rational)
Embed(model, text) ==
  IF model = PrimaryModel
    THEN (IF text = "a" THEN << 3, 4 >> ELSE IF text = "b" THEN << 4, 3 >>
          ELSE IF text = "z" THEN << -3, -4 >> ELSE << 5, 0 >>)
    ELSE (IF text = "a" THEN << 1, 2, 2 >> ELSE IF text = "b" THEN << 2, 2, 1 >>
          ELSE << 2, 1, 2 >>)

\* ------------------------------------------------------------- schema
MemoriesPrimaryKey == {"id"}
EmbeddingsPrimaryKey == {"memory_id", "model"}

\* INSERT ... ON CONFLICT (target): the target must match a unique constraint
ConflictTargetMatches(target, key) == target = key

DefaultImportance == 5
DefaultKind == "note"
EmptyMeta == "{}"

VARIABLES memories, embeddings, nextId, now, multiEmbedder, add, upd, del, swept,
          imp, exp, re, original, srch, schema, mig, stdio, links, rel, peer, sw, proc

vars == << memories, embeddings, nextId, now, multiEmbedder, add, upd, del, swept,
          imp, exp, re, original, srch, schema, mig, stdio, links, rel, peer, sw, proc >>

\* the variables an action of one handler leaves alone
config == << multiEmbedder, schema, mig, stdio, links, rel, peer, sw, proc >>
exceptAdd == << upd, del, swept, imp, exp, re, original, srch >>
exceptUpd == << add, del, swept, imp, exp, re, original, srch >>
exceptDel == << add, upd, swept, imp, exp, re, original, srch >>
exceptSweep == << add, upd, del, imp, exp, re, original, srch >>
exceptImp == << add, upd, del, swept, exp, re, original, srch >>
exceptExp == << add, upd, del, swept, imp, re, srch >>
exceptSearch == << add, upd, del, swept, imp, exp, re, original >>
exceptRe == << add, upd, del, swept, imp, exp, original, srch >>
handlers == << add, upd, del, swept, imp, exp, re, original, srch >>

\* ------------------------------------------------------------- store
InPartition(m, p) == m.tenant_id = p.tenant /\ m.workspace_id = p.workspace

Matches_AnyPartition(mems, p, id) == id \in DOMAIN mems

Matches(mems, p, id) == id \in DOMAIN mems /\ InPartition(mems[id], p)

EmbeddingsOf(embs, id) == {e \in embs : e.memory_id = id}

AddMemory(mems, seq, p, params, clock) ==
  LET row == [tenant_id |-> p.tenant, workspace_id |-> p.workspace,
              kind |-> params.kind, text |-> params.text, source |-> params.source,
              created_at |-> clock, updated_at |-> clock, tags |-> params.tags,
              importance |-> params.importance, ttl_days |-> params.ttl_days,
              meta |-> EmptyMeta]
  IN IF seq \in DOMAIN mems
       THEN [err |-> "insert memory", id |-> 0, memories |-> mems]
       ELSE [err |-> "", id |-> seq,
             memories |-> [i \in DOMAIN mems \cup {seq} |-> IF i = seq THEN row ELSE mems[i]]]

AddEmbedding_NoForeignKey(mems, embs, memoryID, model, embedding) ==
  [err |-> "",
   embeddings |-> {e \in embs : ~(e.memory_id = memoryID /\ e.model = model)}
                    \cup {[memory_id |-> memoryID, model |-> model,
                           dims |-> Len(embedding), embedding |-> embedding]}]

AddEmbedding(mems, embs, memoryID, model, embedding) ==
  LET row == [memory_id |-> memoryID, model |-> model,
              dims |-> Len(embedding), embedding |-> embedding]
  IN IF ~ConflictTargetMatches({"memory_id", "model"}, EmbeddingsPrimaryKey)
       THEN [err |-> "insert embedding", embeddings |-> embs]
     ELSE IF memoryID \notin DOMAIN mems
       THEN [err |-> "insert embedding", embeddings |-> embs]
     ELSE [err |-> "",
           embeddings |-> {e \in embs : ~(e.memory_id = memoryID /\ e.model = model)} \cup {row}]

GetMemory(mems, p, id) == IF Matches(mems, p, id) THEN Some(mems[id]) ELSE None

NoPatch == [kind |-> None, text |-> None, source |-> None, tags |-> None,
            importance |-> None, ttl_days |-> None, meta |-> None]

Patched(old, field) == IF field = None THEN old ELSE field[1]

UpdateMemory_WritesEveryColumn(mems, p, id, params, clock) ==
  IF Matches(mems, p, id)
    THEN [err |-> "",
          memories |-> [mems EXCEPT ![id] =
             [@ EXCEPT !.updated_at = clock,
                       !.kind = Patched(DefaultKind, params.kind),
                       !.text = Patched(@, params.text),
                       !.source = params.source,
                       !.tags = Patched(<< >>, params.tags),
                       !.importance = Patched(DefaultImportance, params.importance),
                       !.ttl_days = params.ttl_days,
                       !.meta = Patched(EmptyMeta, params.meta)]]]
    ELSE [err |-> "memory not found", memories |-> mems]

UpdateMemory(mems, p, id, params, clock) ==
  IF Matches(mems, p, id)
    THEN [err |-> "",
          memories |-> [mems EXCEPT ![id] =
             [@ EXCEPT !.updated_at = clock,
                       !.kind = Patched(@, params.kind),
                       !.text = Patched(@, params.text),
                       !.source = IF params.source = None THEN @ ELSE params.source,
                       !.tags = Patched(@, params.tags),
                       !.importance = Patched(@, params.importance),
                       !.ttl_days = IF params.ttl_days = None THEN @ ELSE params.ttl_days,
                       !.meta = Patched(@, params.meta)]]]
    ELSE [err |-> "memory not found", memories |-> mems]

DeleteMemory(mems, embs, p, id) ==
  IF Matches(mems, p, id)
    THEN [err |-> "",
          memories |-> [i \in DOMAIN mems \ {id} |-> mems[i]],
          embeddings |-> {e \in embs : e.memory_id # id}]
    ELSE [err |-> "memory not found", memories |-> mems, embeddings |-> embs]

\* ------------------------------------------------------------- sweeper
Expired(m, clock) == m.ttl_days # None /\ m.created_at + m.ttl_days[1] < clock

DeleteExpired_AnyPartition(mems, embs, p, clock) ==
  LET gone == {i \in DOMAIN mems : Expired(mems[i], clock)}
  IN [deleted |-> Cardinality(gone),
      memories |-> [i \in DOMAIN mems \ gone |-> mems[i]],
      embeddings |-> {e \in embs : e.memory_id \notin gone}]

DeleteExpired(mems, embs, p, clock) ==
  LET gone == {i \in DOMAIN mems : InPartition(mems[i], p) /\ Expired(mems[i], clock)}
  IN [deleted |-> Cardinality(gone),
      memories |-> [i \in DOMAIN mems \ gone |-> mems[i]],
      embeddings |-> {e \in embs : e.memory_id \notin gone}]

\* ------------------------------------------------------------- search
Dot(v, w) == LET F[i \in 0..Len(v)] == IF i = 0 THEN 0 ELSE F[i - 1] + v[i] * w[i] IN F[Len(v)]

Norm(v) == CHOOSE n \in 0..Dot(v, v) : n * n = Dot(v, v)

\* 1 - (e.embedding <=> $1), in units of 1/225
Similarity(v, w) == ((9 * 25) * Dot(v, w)) \div (Norm(v) * Norm(w))

\* the rows of a result set in ORDER BY order; before is the sort order, a set of pairs
Sorted(rows, before) ==
  [i \in 1..Cardinality(rows) |->
     CHOOSE r \in rows : Cardinality({o \in rows \ {r} : << o, r >> \in before}) = i - 1]

Limit(seq, n) == SubSeq(seq, 1, IF Len(seq) < n THEN Len(seq) ELSE n)

DefaultLimit == 10

VectorSearch(mems, embs, p, vec, limit, model) ==
  LET lim == IF limit <= 0 THEN DefaultLimit ELSE limit
      joined == {e \in embs : Matches(mems, p, e.memory_id) /\ (model = "" \/ e.model = model)}
      Row(e) == [id |-> e.memory_id, model |-> e.model, score |-> Similarity(e.embedding, vec)]
      Nearer(a, b) == \/ a.score > b.score
                      \/ a.score = b.score /\ a.id < b.id
                      \/ a.score = b.score /\ a.id = b.id /\ a.model # b.model
                           /\ a.model = PrimaryModel
      ById(a, b) == a.id < b.id
      best == {e \in joined : \A o \in joined \ {e} :
                  o.memory_id = e.memory_id => Nearer(Row(e), Row(o))}
  IN IF \E e \in joined : e.dims # Len(vec)
       THEN [err |-> "vector search", rows |-> << >>]
     ELSE IF model # ""
       THEN LET all == {Row(e) : e \in joined}
            IN [err |-> "",
                rows |-> Limit(Sorted(all, {pr \in all \X all : Nearer(pr[1], pr[2])}), lim)]
     ELSE LET all == {Row(e) : e \in best}
          IN [err |-> "",
              rows |-> Limit(Sorted(all, {pr \in all \X all : ById(pr[1], pr[2])}), lim)]

\* pg_trgm: the trigrams of a one-word text, padded with two blanks before and one after
Trigrams(text) ==
  IF text = "a" THEN {"  a", " a "}
  ELSE IF text = "b" THEN {"  b", " b "}
  ELSE IF text = "z" THEN {"  z", " z "}
  ELSE IF text = "a b c" THEN {"  a", " a ", "  b", " b ", "  c", " c "}
  ELSE {}

\* similarity(m.text, $1), in units of 1/225
TrigramSimilarity(text, query) ==
  LET both == Cardinality(Trigrams(text) \cap Trigrams(query))
      any == Cardinality(Trigrams(text) \cup Trigrams(query))
  IN IF any = 0 THEN 0 ELSE ((9 * 25) * both) \div any

\* m.text % $1: similarity at least pg_trgm.similarity_threshold (0.3)
TrigramMatch(text, query) == 10 * TrigramSimilarity(text, query) >= 3 * (9 * 25)

LexicalSearch(mems, p, query, limit) ==
  LET lim == IF limit <= 0 THEN DefaultLimit ELSE limit
      hits == {i \in DOMAIN mems : InPartition(mems[i], p) /\ TrigramMatch(mems[i].text, query)}
      Row(i) == [id |-> i, model |-> "", score |-> TrigramSimilarity(mems[i].text, query)]
      Higher(a, b) == a.score > b.score \/ (a.score = b.score /\ a.id < b.id)
      all == {Row(i) : i \in hits}
  IN [err |-> "",
      rows |-> Limit(Sorted(all, {pr \in all \X all : Higher(pr[1], pr[2])}), lim)]

Ids(rows) == {rows[i].id : i \in 1..Len(rows)}

\* ------------------------------------------------------------- hybrid search
\* a score is the fraction n / d with d > 0, in lowest terms; the scores of the store are in units of 1/225
Unit == 9 * 25
RECURSIVE GCD(_, _)
GCD(a, b) == IF b = 0 THEN a ELSE GCD(b, a % b)
Abs(x) == IF x < 0 THEN -x ELSE x
\* in lowest terms, so that equal scores are equal records
Rat(n, d) == LET g == GCD(Abs(n), d) IN [n |-> n \div g, d |-> d \div g]
RatLess(a, b) == a.n * b.d < b.n * a.d
RatEqual(a, b) == a.n * b.d = b.n * a.d

\* alpha in tenths
AlphaOne == 10
DefaultAlpha == 7

memoriesToResults(rows) ==
  [i \in 1..Len(rows) |-> [id |-> rows[i].id, score |-> Rat(rows[i].score, Unit)]]

truncateResults_All(results, limit) == results

truncateResults(results, limit) ==
  IF Len(results) <= limit THEN results ELSE SubSeq(results, 1, limit)

\* every score divided by the largest one, unless that one is not positive
normalizeScores(rows) ==
  IF rows = << >> THEN << >>
  ELSE LET scores == {rows[i].score : i \in 1..Len(rows)}
           maxScore == CHOOSE m \in scores : \A o \in scores : o <= m
       IN [i \in 1..Len(rows) |->
             [id |-> rows[i].id,
              score |-> IF maxScore <= 0 THEN Rat(rows[i].score, Unit)
                        ELSE Rat(rows[i].score, maxScore)]]

\* the score of id in a lookup map built from results: 0 if not present
ScoreOf(results, id) ==
  IF \E i \in 1..Len(results) : results[i].id = id
    THEN results[CHOOSE i \in 1..Len(results) : results[i].id = id].score
    ELSE Rat(0, 1)

\* alpha * vector + (1 - alpha) * lexical
Fuse(alpha, v, l) ==
  Rat(alpha * v.n * l.d + (AlphaOne - alpha) * l.n * v.d, AlphaOne * v.d * l.d)

\* the orders sort.Slice can leave the merged map in: score descending, equal scores
\* in any order
SortedByScore(fused) ==
  {o \in [1..Cardinality(fused) -> fused] :
     /\ \A i, j \in DOMAIN o : i # j => o[i] # o[j]
     /\ \A i, j \in DOMAIN o : i < j => ~RatLess(o[i].score, o[j].score)}

vectorOnlySearch(mems, embs, p, vec, limit, model) ==
  LET r == VectorSearch(mems, embs, p, vec, limit, model)
  IN IF r.err # "" THEN [err |-> r.err, results |-> {<< >>}]
     ELSE [err |-> "", results |-> {memoriesToResults(r.rows)}]

MinFetchLimit == 20

fetchLimit(limit) == IF limit * 3 < MinFetchLimit THEN MinFetchLimit ELSE limit * 3

hybridSearch(mems, embs, p, query, vec, limit, alpha, model) ==
  LET vr == VectorSearch(mems, embs, p, vec, fetchLimit(limit), model)
      lr == LexicalSearch(mems, p, query, fetchLimit(limit))
      nv == normalizeScores(vr.rows)
      nl == normalizeScores(lr.rows)
      fused == {[id |-> i, score |-> Fuse(alpha, ScoreOf(nv, i), ScoreOf(nl, i))] :
                  i \in Ids(vr.rows) \cup Ids(lr.rows)}
  IN IF vr.err # "" THEN [err |-> vr.err, results |-> {<< >>}]
     ELSE IF vr.rows = << >> /\ lr.rows = << >> THEN [err |-> "", results |-> {<< >>}]
     ELSE IF vr.rows = << >>
       THEN [err |-> "", results |-> {truncateResults(memoriesToResults(lr.rows), limit)}]
     ELSE IF lr.rows = << >>
       THEN [err |-> "", results |-> {truncateResults(memoriesToResults(vr.rows), limit)}]
     ELSE [err |-> "", results |-> {truncateResults(o, limit) : o \in SortedByScore(fused)}]

\* HybridSearcher.Search of a searcher whose default alpha is searcherAlpha
\* a Search that never takes the per-call alpha
Search_NoOverride(mems, embs, p, params, searcherAlpha, embedOk) ==
  LET limit == IF params.limit <= 0 THEN DefaultLimit ELSE params.limit
      vec == Embed(PrimaryModel, params.query)
  IN IF ~embedOk THEN [err |-> "embed", results |-> {<< >>}]
     ELSE IF ~params.hybrid
       THEN vectorOnlySearch(mems, embs, p, vec, limit, params.model)
     ELSE hybridSearch(mems, embs, p, params.query, vec, limit, searcherAlpha, params.model)

Search(mems, embs, p, params, searcherAlpha, embedOk) ==
  LET limit == IF params.limit <= 0 THEN DefaultLimit ELSE params.limit
      vec == Embed(PrimaryModel, params.query)
      alpha == IF params.alpha > 0 THEN params.alpha ELSE searcherAlpha
  IN IF ~embedOk THEN [err |-> "embed", results |-> {<< >>}]
     ELSE IF ~params.hybrid
       THEN vectorOnlySearch(mems, embs, p, vec, limit, params.model)
     ELSE hybridSearch(mems, embs, p, params.query, vec, limit, alpha, params.model)

\* ------------------------------------------------------------- handlers
\* a handler invocation: pc, the memory id, the text being embedded, the models whose
\* vectors are still to be stored, the error returned, the number of gateway calls and
\* the models whose upsert failed, which the handler logs as warnings
Idle ==
  [pc |-> "idle", id |-> 0, text |-> "", pending |-> {}, err |-> "", embedCalls |-> 0,
   failed |-> {}]

Returned(h, id, err) ==
  [Idle EXCEPT !.pc = "done", !.id = id, !.err = err, !.embedCalls = h.embedCalls,
               !.failed = h.failed]

Embedded_FailureFatal(h, ok) ==
  IF ok
    THEN [h EXCEPT !.pc = "storing", !.embedCalls = 1,
                   !.pending = IF multiEmbedder THEN MultiModels ELSE {PrimaryModel}]
    ELSE Returned([h EXCEPT !.embedCalls = 1], 0, "generate embedding")

\* multiEmbedder.EmbedAll or provider.Embed, then the models to store
Embedded(h, ok) ==
  IF ok
    THEN [h EXCEPT !.pc = "storing", !.embedCalls = 1,
                   !.pending = IF multiEmbedder THEN MultiModels ELSE {PrimaryModel}]
    ELSE Returned([h EXCEPT !.embedCalls = 1], h.id, "")

\* a handler that returns once the first vector is stored
Stored_FirstOnly(h, model) == Returned(h, h.id, "")

\* database.AddEmbedding for one model; its error is logged, never returned
Stored(h, model) ==
  LET rest == h.pending \ {model}
  IN IF rest = {} THEN Returned(h, h.id, "") ELSE [h EXCEPT !.pending = rest]

Warned(h, model, ok) == IF ok THEN h ELSE [h EXCEPT !.failed = @ \cup {model}]

\* ------------------------------------------------------------- memory.add
TextMissing_Never(args) == FALSE

TextMissing(args) == args.text = ""

createAddHandler(p, args) ==
  /\ add.pc \in {"idle", "done"}
  /\ IF TextMissing(args)
       THEN /\ add' = Returned(Idle, 0, "text is required")
            /\ UNCHANGED << memories, nextId >>
       ELSE /\ nextId <= MaxId
            /\ LET r == AddMemory(memories, nextId, p,
                                  [kind |-> IF args.kind = "" THEN DefaultKind ELSE args.kind,
                                   text |-> args.text, source |-> None,
                                   tags |-> << >>,
                                   importance |-> IF args.importance = None
                                                    THEN DefaultImportance
                                                    ELSE args.importance[1],
                                   ttl_days |-> args.ttl_days], now)
               IN /\ memories' = r.memories
                  /\ nextId' = nextId + 1
                  /\ add' = IF r.err # ""
                              THEN Returned(Idle, 0, "add memory: insert memory")
                              ELSE [Idle EXCEPT !.pc = "inserted", !.id = r.id,
                                                !.text = args.text]
  /\ UNCHANGED << embeddings, now, config, exceptAdd >>

AddEmbed(ok) ==
  /\ add.pc = "inserted"
  /\ add' = Embedded(add, ok)
  /\ UNCHANGED << memories, embeddings, nextId, now, config, exceptAdd >>

\* dbOk = FALSE: the statement fails (connection lost, request cancelled)
AddStore(model, dbOk) ==
  /\ add.pc = "storing"
  /\ model \in add.pending
  /\ LET r == AddEmbedding(memories, embeddings, add.id, model, Embed(model, add.text))
     IN /\ embeddings' = IF dbOk THEN r.embeddings ELSE embeddings
        /\ add' = Stored(Warned(add, model, dbOk /\ r.err = ""), model)
  /\ UNCHANGED << memories, nextId, now, config, exceptAdd >>

\* ------------------------------------------------------------- memory.update
AfterUpdate_EmbedsAnyway(id, patch, err) ==
  IF patch.text # None
    THEN [Idle EXCEPT !.pc = "updated", !.id = id, !.text = patch.text[1]]
    ELSE Returned(Idle, id, IF err # "" THEN "update memory: memory not found" ELSE "")

\* what the handler does with the outcome of database.UpdateMemory
AfterUpdate(id, patch, err) ==
  IF err # "" THEN Returned(Idle, id, "update memory: memory not found")
  ELSE IF patch.text = None THEN Returned(Idle, id, "")
  ELSE [Idle EXCEPT !.pc = "updated", !.id = id, !.text = patch.text[1]]

createUpdateHandler(p, id, patch) ==
  /\ upd.pc \in {"idle", "done"}
  /\ IF id = 0
       THEN /\ upd' = Returned(Idle, id, "id is required")
            /\ UNCHANGED memories
       ELSE LET r == UpdateMemory(memories, p, id, [patch EXCEPT !.meta = None], now)
            IN /\ memories' = r.memories
               /\ upd' = AfterUpdate(id, patch, r.err)
  /\ UNCHANGED << embeddings, nextId, now, config, exceptUpd >>

UpdateEmbed(ok) ==
  /\ upd.pc = "updated"
  /\ upd' = Embedded(upd, ok)
  /\ UNCHANGED << memories, embeddings, nextId, now, config, exceptUpd >>

UpdateStore(model, dbOk) ==
  /\ upd.pc = "storing"
  /\ model \in upd.pending
  /\ LET r == AddEmbedding(memories, embeddings, upd.id, model, Embed(model, upd.text))
     IN /\ embeddings' = IF dbOk THEN r.embeddings ELSE embeddings
        /\ upd' = Stored(Warned(upd, model, dbOk /\ r.err = ""), model)
  /\ UNCHANGED << memories, nextId, now, config, exceptUpd >>

\* ------------------------------------------------------------- a second update call
\* peer is a call of the update handler that runs at the same time as the one in upd:
\* another server process bound to the same partition and database
PeerUpdate(p, id, patch) ==
  /\ peer.pc \in {"idle", "done"}
  /\ IF id = 0
       THEN /\ peer' = Returned(Idle, id, "id is required")
            /\ UNCHANGED memories
       ELSE LET r == UpdateMemory(memories, p, id, [patch EXCEPT !.meta = None], now)
            IN /\ memories' = r.memories
               /\ peer' = AfterUpdate(id, patch, r.err)
  /\ UNCHANGED << embeddings, nextId, now, multiEmbedder, sw, proc, schema, mig, stdio, links, rel,
                  handlers >>

PeerEmbed(ok) ==
  /\ peer.pc = "updated"
  /\ peer' = Embedded(peer, ok)
  /\ UNCHANGED << memories, embeddings, nextId, now, multiEmbedder, sw, proc, schema, mig, stdio,
                  links, rel, handlers >>

PeerStore(model, dbOk) ==
  /\ peer.pc = "storing"
  /\ model \in peer.pending
  /\ LET r == AddEmbedding(memories, embeddings, peer.id, model, Embed(model, peer.text))
     IN /\ embeddings' = IF dbOk THEN r.embeddings ELSE embeddings
        /\ peer' = Stored(Warned(peer, model, dbOk /\ r.err = ""), model)
  /\ UNCHANGED << memories, nextId, now, multiEmbedder, sw, proc, schema, mig, stdio, links, rel,
                  handlers >>

\* ------------------------------------------------------------- memory.delete
createDeleteHandler(p, id) ==
  /\ IF id = 0
       THEN /\ del' = [id |-> id, err |-> "id is required"]
            /\ UNCHANGED << memories, embeddings >>
       ELSE LET r == DeleteMemory(memories, embeddings, p, id)
            IN /\ memories' = r.memories
               /\ embeddings' = r.embeddings
               /\ del' = [id |-> id, err |-> IF r.err # "" THEN "delete memory: memory not found" ELSE ""]
  /\ UNCHANGED << nextId, now, config, exceptDel >>

\* ------------------------------------------------------------- memory.search
NoParams == [query |-> "", limit |-> 0, hybrid |-> FALSE, alpha |-> 0, model |-> ""]
NoSearch == [pc |-> "idle", k |-> None, params |-> NoParams, searcherAlpha |-> DefaultAlpha,
             err |-> "", results |-> << >>]

\* a call of Search of a searcher with the given default alpha; k is the tool's argument
SearchCall(p, k, params, searcherAlpha, embedOk) ==
  /\ LET r == Search(memories, embeddings, p, params, searcherAlpha, embedOk)
     IN \E results \in r.results :
          srch' = [pc |-> "done", k |-> k, params |-> params,
                   searcherAlpha |-> searcherAlpha,
                   err |-> IF r.err # "" THEN "search" ELSE "", results |-> results]
  /\ UNCHANGED << memories, embeddings, nextId, now, config, exceptSearch >>

createSearchHandler(p, args, embedOk) ==
  IF args.query = ""
    THEN /\ srch' = [NoSearch EXCEPT !.pc = "done", !.k = args.k, !.err = "query is required"]
         /\ UNCHANGED << memories, embeddings, nextId, now, config, exceptSearch >>
    ELSE SearchCall(p, args.k,
                    [query |-> args.query,
                     limit |-> IF args.k = None THEN DefaultLimit ELSE args.k[1],
                     hybrid |-> IF args.hybrid = None THEN TRUE ELSE args.hybrid[1],
                     alpha |-> 0,
                     model |-> IF args.model = None THEN "" ELSE args.model[1]],
                    DefaultAlpha, embedOk)

\* ------------------------------------------------------------- sweeper and clock
\* one sweep of the sweeper of the server bound to p; swept is the count it logs
runSweep(p) ==
  /\ LET r == DeleteExpired(memories, embeddings, p, now)
     IN /\ memories' = r.memories
        /\ embeddings' = r.embeddings
        /\ swept' = r.deleted
  /\ UNCHANGED << nextId, now, config, exceptSweep >>

Tick ==
  /\ now < MaxTime
  /\ now' = now + 1
  /\ UNCHANGED << memories, embeddings, nextId, config, handlers >>

\* ------------------------------------------------------------- transfer codec
\* a MemoryRecord: optional values are None or Some(v); a nil slice or nil map is None
ZeroRecord == [id |-> 0, tenant_id |-> "", workspace_id |-> "", kind |-> "", text |-> "",
               source |-> None, created_at |-> 0, updated_at |-> 0, tags |-> None,
               importance |-> 0, ttl_days |-> None, meta |-> None, embedding |-> None]

\* json.Unmarshal of a meta column: JSON null leaves the map nil
UnmarshalMeta(json) == IF json = "null" THEN None ELSE Some(json)

\* json.Marshal of a record's meta map: a nil map is encoded as null
MarshalMeta(meta) == IF meta = None THEN "null" ELSE meta[1]

scanMemoryRecord(id, row) ==
  [id |-> id, tenant_id |-> row.tenant_id, workspace_id |-> row.workspace_id,
   kind |-> row.kind, text |-> row.text, source |-> row.source,
   created_at |-> row.created_at, updated_at |-> row.updated_at,
   tags |-> Some(row.tags), importance |-> row.importance, ttl_days |-> row.ttl_days,
   meta |-> UnmarshalMeta(row.meta), embedding |-> None]

\* the row QueryRow returns for the memory: the one of model pick when there are several
fetchEmbedding(embs, memoryID, pick) ==
  LET rows == {e \in EmbeddingsOf(embs, memoryID) : e.model = pick}
  IN IF rows = {} THEN None
     ELSE LET e == CHOOSE r \in rows : TRUE
          IN Some([model |-> e.model, dims |-> e.dims, vector |-> e.embedding])

\* one line of JSONL: omitempty drops an empty tags list and an empty meta map
Encode(record) ==
  [ok |-> TRUE,
   rec |-> [record EXCEPT !.tags = IF @ = None \/ @ = Some(<< >>) THEN None ELSE @,
                          !.meta = IF @ = None \/ @ = Some(EmptyMeta) THEN None ELSE @]]

Malformed == [ok |-> FALSE, rec |-> ZeroRecord]

\* a line longer than the scanner's buffer may grow (10 MB): the scanner stops there
TooLong == [ok |-> FALSE, rec |-> ZeroRecord, long |-> TRUE]

\* an export query without its LIMIT
buildExportQuery_NoLimit(mems, opts) ==
  LET ids == {i \in DOMAIN mems :
                /\ opts.tenant = "" \/ mems[i].tenant_id = opts.tenant
                /\ opts.workspace = "" \/ mems[i].workspace_id = opts.workspace
                /\ opts.kind = "" \/ mems[i].kind = opts.kind}
  IN Sorted(ids, {pr \in ids \X ids : pr[1] < pr[2]})

buildExportQuery(mems, opts) ==
  LET ids == {i \in DOMAIN mems :
                /\ opts.tenant = "" \/ mems[i].tenant_id = opts.tenant
                /\ opts.workspace = "" \/ mems[i].workspace_id = opts.workspace
                /\ opts.kind = "" \/ mems[i].kind = opts.kind}
      ordered == Sorted(ids, {pr \in ids \X ids : pr[1] < pr[2]})
  IN IF opts.limit > 0 THEN Limit(ordered, opts.limit) ELSE ordered

Export(mems, embs, opts, pick) ==
  LET ids == buildExportQuery(mems, opts)
      line(id) ==
        LET record == scanMemoryRecord(id, mems[id])
            embedding == IF opts.includeEmbeddings
                           THEN fetchEmbedding(embs, id, pick[id]) ELSE None
        IN Encode([record EXCEPT !.embedding = embedding])
  IN [data |-> [i \in 1..Len(ids) |-> line(ids[i])],
      total |-> Len(ids), exported |-> Len(ids), errors |-> 0]

memoryExists(mems, id, tenantID, workspaceID) ==
  id \in DOMAIN mems /\ mems[id].tenant_id = tenantID /\ mems[id].workspace_id = workspaceID

\* an upsert whose conflict target is the table's primary key
upsertEmbedding_CompositeTarget(mems, embs, memoryID, model, vector) ==
  AddEmbedding(mems, embs, memoryID, model, vector)

upsertEmbedding(mems, embs, memoryID, model, vector) ==
  LET row == [memory_id |-> memoryID, model |-> model,
              dims |-> Len(vector), embedding |-> vector]
  IN IF ~ConflictTargetMatches({"memory_id"}, EmbeddingsPrimaryKey)
       THEN [err |-> "upsert embedding", embeddings |-> embs]
     ELSE IF memoryID \notin DOMAIN mems
       THEN [err |-> "upsert embedding", embeddings |-> embs]
     ELSE [err |-> "", embeddings |-> {e \in embs : e.memory_id # memoryID} \cup {row}]

\* defer tx.Rollback(ctx): the transaction that did not commit leaves the tables as
\* they were at Begin, the row written by its memory upsert (upserted) included
Rollback_KeepsRow(mems, embs, upserted, err) ==
  [err |-> err, memories |-> upserted, embeddings |-> embs]

Rollback(mems, embs, upserted, err) == [err |-> err, memories |-> mems, embeddings |-> embs]

\* the transaction of one record; any error rolls the whole of it back
importRecord(mems, embs, record, opts, embedOk) ==
  LET row == [tenant_id |-> record.tenant_id, workspace_id |-> record.workspace_id,
              kind |-> record.kind, text |-> record.text, source |-> record.source,
              created_at |-> record.created_at, updated_at |-> record.updated_at,
              tags |-> IF record.tags = None THEN << >> ELSE record.tags[1],
              importance |-> record.importance, ttl_days |-> record.ttl_days,
              meta |-> MarshalMeta(record.meta)]
      upserted ==
        IF record.id \in DOMAIN mems
          THEN [mems EXCEPT ![record.id] =
                  [@ EXCEPT !.workspace_id = row.workspace_id, !.kind = row.kind,
                            !.text = row.text, !.source = row.source,
                            !.updated_at = row.updated_at, !.tags = row.tags,
                            !.importance = row.importance, !.ttl_days = row.ttl_days,
                            !.meta = row.meta]]
          ELSE [i \in DOMAIN mems \cup {record.id} |->
                  IF i = record.id THEN row ELSE mems[i]]
      failed(err) == Rollback(mems, embs, upserted, err)
      stored(r) == IF r.err # "" THEN failed("upsert embedding")
                   ELSE [err |-> "", memories |-> upserted, embeddings |-> r.embeddings]
  IN IF opts.regenerate
       THEN IF ~embedOk THEN failed("generate embedding")
            ELSE stored(upsertEmbedding(upserted, embs, record.id, PrimaryModel,
                                        Embed(PrimaryModel, record.text)))
     ELSE IF record.embedding # None
       THEN stored(upsertEmbedding(upserted, embs, record.id, record.embedding[1].model,
                                   record.embedding[1].vector))
     ELSE [err |-> "", memories |-> upserted, embeddings |-> embs]

\* ------------------------------------------------------------- memory.export
NoExport == [pc |-> "idle", args |-> [includeEmbeddings |-> FALSE, kind |-> "", limit |-> 0],
             data |-> << >>, exported |-> 0, errors |-> 0]

createExportHandler(p, args, pick) ==
  /\ \A id \in DOMAIN memories :
        IF EmbeddingsOf(embeddings, id) = {} THEN pick[id] = PrimaryModel
        ELSE \E e \in EmbeddingsOf(embeddings, id) : e.model = pick[id]
  /\ LET r == Export(memories, embeddings,
                     [includeEmbeddings |-> args.includeEmbeddings, tenant |-> p.tenant,
                      workspace |-> p.workspace, kind |-> args.kind, limit |-> args.limit],
                     pick)
     IN exp' = [pc |-> "done", args |-> args, data |-> r.data, exported |-> r.exported,
                errors |-> r.errors]
  /\ original' = [memories |-> memories, embeddings |-> embeddings]
  /\ UNCHANGED << memories, embeddings, nextId, now, config, exceptExp >>

\* ------------------------------------------------------------- memory.import
NoStats == [total |-> 0, imported |-> 0, skipped |-> 0, errors |-> 0]
NoImport == [pc |-> "idle", p |-> P, opts |-> [skipExisting |-> FALSE, regenerate |-> FALSE,
                                               dryRun |-> FALSE],
             input |-> << >>, stats |-> NoStats, err |-> ""]

\* an import that returns at the first line counted as an error
Scanned_StopsAtError(task, stats) ==
  [task EXCEPT !.stats = stats, !.input = Tail(@),
               !.pc = IF Len(task.input) = 1 \/ stats.errors > task.stats.errors
                        THEN "done" ELSE "scan"]

\* the import moves on to the next line, or returns when there is none
Scanned(task, stats) ==
  [task EXCEPT !.stats = stats, !.input = Tail(@),
               !.pc = IF Len(task.input) = 1 THEN "done" ELSE "scan"]

createImportHandler(p, data, opts) ==
  /\ imp.pc \in {"idle", "done"}
  /\ imp' = IF data = << >>
              THEN [NoImport EXCEPT !.pc = "done", !.p = p, !.err = "data is required"]
              ELSE [NoImport EXCEPT !.pc = "scan", !.p = p, !.opts = opts, !.input = data]
  /\ UNCHANGED << memories, embeddings, nextId, now, config, exceptImp >>

\* the record of a line after the handler's overrides
Overridden(line, p) == [line.rec EXCEPT !.tenant_id = p.tenant, !.workspace_id = p.workspace]

DryRun_Never(opts) == FALSE

DryRun(opts) == opts.dryRun

\* one line up to the call of importRecord: scan, parse, overrides, dry run, existence
\* check; a scanner error ends the import and the handler returns it
ImportScan(dbOk) ==
  /\ imp.pc = "scan"
  /\ LET line == Head(imp.input)
         record == Overridden(line, imp.p)
         total == [imp.stats EXCEPT !.total = @ + 1]
     IN imp' =
          IF line = TooLong
            THEN [imp EXCEPT !.pc = "done", !.input = << >>, !.err = "import: scan input"]
          ELSE IF ~line.ok THEN Scanned(imp, [total EXCEPT !.errors = @ + 1])
          ELSE IF DryRun(imp.opts) THEN Scanned(imp, [total EXCEPT !.imported = @ + 1])
          ELSE IF imp.opts.skipExisting /\ ~dbOk
            THEN Scanned(imp, [total EXCEPT !.errors = @ + 1])
          ELSE IF imp.opts.skipExisting
                  /\ memoryExists(memories, record.id, record.tenant_id, record.workspace_id)
            THEN Scanned(imp, [total EXCEPT !.skipped = @ + 1])
          ELSE [imp EXCEPT !.pc = "record", !.stats = total]
  /\ UNCHANGED << memories, embeddings, nextId, now, config, exceptImp >>

ImportRecord(embedOk, dbOk) ==
  /\ imp.pc = "record"
  /\ LET record == Overridden(Head(imp.input), imp.p)
         tx == importRecord(memories, embeddings, record, imp.opts, embedOk)
         \* dbOk = FALSE: Begin fails, or every statement succeeds and Commit fails
         r == IF dbOk \/ tx.err # "" THEN tx
              ELSE Rollback(memories, embeddings, tx.memories, "commit transaction")
     IN /\ memories' = r.memories
        /\ embeddings' = r.embeddings
        /\ imp' = Scanned(imp, IF r.err # "" THEN [imp.stats EXCEPT !.errors = @ + 1]
                               ELSE [imp.stats EXCEPT !.imported = @ + 1])
  /\ UNCHANGED << nextId, now, config, exceptImp >>

\* ------------------------------------------------------------- re-embed engine
\* the name the provider's Model() answers: the chat model of a gateway provider, the
\* primary embedding model of a MultiEmbedder
ChatModel == "chat"
ProviderModel == IF multiEmbedder THEN PrimaryModel ELSE ChatModel

DefaultBatchSize == 100

NoReembed == [pc |-> "idle", p |-> P,
              cfg |-> [batchSize |-> DefaultBatchSize, deleteOld |-> FALSE,
                       targetModel |-> "", skipExisting |-> TRUE],
              model |-> "", offset |-> 0, batch |-> << >>, fetched |-> 0,
              stats |-> [total |-> 0, processed |-> 0, skipped |-> 0, errors |-> 0],
              calls |-> 0, unchecked |-> 0, progress |-> None, nilStats |-> FALSE,
              err |-> ""]

\* SELECT id, text ... ORDER BY id LIMIT batchSize OFFSET offset
ReembedPage(mems, p, batchSize, offset) ==
  LET ids == {i \in DOMAIN mems : InPartition(mems[i], p)}
      ordered == Sorted(ids, {pr \in ids \X ids : pr[1] < pr[2]})
      last == IF offset + batchSize < Len(ordered) THEN offset + batchSize ELSE Len(ordered)
  IN [i \in 1..(IF last > offset THEN last - offset ELSE 0) |->
        [id |-> ordered[offset + i], text |-> mems[ordered[offset + i]].text]]

\* progress is the callback of the call: None for nil, else the ids it has been called
\* with, in order
ReembedAll(p, cfg, progress) ==
  /\ re.pc \in {"idle", "done"}
  /\ LET total == Cardinality({i \in DOMAIN memories : InPartition(memories[i], p)})
     IN re' = [NoReembed EXCEPT
                 !.pc = IF total = 0 THEN "done" ELSE "batch",
                 !.p = p, !.cfg = cfg, !.stats.total = total, !.progress = progress,
                 !.model = IF total = 0 THEN ""
                           ELSE IF cfg.targetModel = "" THEN ProviderModel
                           ELSE cfg.targetModel]
  /\ UNCHANGED << memories, embeddings, nextId, now, config, exceptRe >>

\* the top of the batch loop: the cancellation check, then the query of the next page.
\* cancelled: the select finds ctx.Done() ready and the call returns stats, ctx.Err();
\* interrupted: the context is cancelled after the check, while the page query runs,
\* and the call returns nil, "query memories: ..."
ReembedBatch(cancelled, interrupted) ==
  /\ re.pc = "batch"
  /\ LET rows == ReembedPage(memories, re.p, re.cfg.batchSize, re.offset)
     IN re' = IF cancelled THEN [re EXCEPT !.pc = "done", !.err = "context canceled"]
              ELSE IF interrupted
                THEN [re EXCEPT !.pc = "done", !.nilStats = TRUE,
                                !.err = "query memories: context canceled"]
              ELSE IF rows = << >> THEN [re EXCEPT !.pc = "done"]
              ELSE [re EXCEPT !.pc = "item", !.batch = rows, !.fetched = Len(rows)]
  /\ UNCHANGED << memories, embeddings, nextId, now, config, exceptRe >>

\* the job moves on to the next memory of the batch, or to the next batch
Processed(task, stats) ==
  [task EXCEPT !.stats = [stats EXCEPT !.processed = @ + 1],
               !.progress = IF @ = None THEN None
                            ELSE Some(Append(@[1], Head(task.batch).id)),
               !.batch = Tail(@),
               !.pc = IF Len(task.batch) = 1 THEN "batch" ELSE "item",
               !.offset = IF Len(task.batch) = 1 THEN @ + task.fetched ELSE @,
               !.fetched = IF Len(task.batch) = 1 THEN 0 ELSE @]

\* if cfg.SkipExisting { ... QueryRow(EXISTS ...).Scan(&exists); if err == nil && exists
\* { skip } }: a check that fails leaves the memory to be embedded
SkipsExisting_Never(cfg, checkOk, exists) == FALSE
SkipsExisting(cfg, checkOk, exists) == cfg.skipExisting /\ checkOk /\ exists

\* the existence check and the gateway call for the memory at the head of the batch;
\* calls counts the gateway calls of the pass, unchecked its failed existence checks
ReembedItem(checkOk, embedOk) ==
  /\ re.pc = "item"
  /\ LET m == Head(re.batch)
         exists == \E e \in embeddings : e.memory_id = m.id /\ e.model = re.model
         checked == [re EXCEPT !.unchecked = IF re.cfg.skipExisting /\ ~checkOk
                                               THEN @ + 1 ELSE @]
         called == [checked EXCEPT !.calls = @ + 1]
     IN re' = IF SkipsExisting(re.cfg, checkOk, exists)
                THEN Processed(checked, [re.stats EXCEPT !.skipped = @ + 1])
              ELSE IF ~embedOk
                THEN Processed(called, [re.stats EXCEPT !.errors = @ + 1])
              ELSE [called EXCEPT !.pc = "store"]
  /\ UNCHANGED << memories, embeddings, nextId, now, config, exceptRe >>

ReembedStore(dbOk) ==
  /\ re.pc = "store"
  /\ LET m == Head(re.batch)
         r == IF dbOk THEN AddEmbedding(memories, embeddings, m.id, re.model,
                                        Embed(PrimaryModel, m.text))
              ELSE [err |-> "store embedding", embeddings |-> embeddings]
     IN /\ embeddings' = r.embeddings
        /\ re' = IF r.err # "" THEN Processed(re, [re.stats EXCEPT !.errors = @ + 1])
                 ELSE IF re.cfg.deleteOld THEN [re EXCEPT !.pc = "deleteOld"]
                 ELSE Processed(re, re.stats)
  /\ UNCHANGED << memories, nextId, now, config, exceptRe >>

\* DELETE FROM memory_embeddings WHERE memory_id = $1 AND model != $2
DeleteOld_Nothing(embs, id, model) == embs
DeleteOld(embs, id, model) == {e \in embs : ~(e.memory_id = id /\ e.model # model)}

ReembedDeleteOld(dbOk) ==
  /\ re.pc = "deleteOld"
  /\ LET m == Head(re.batch)
     IN embeddings' = IF dbOk THEN DeleteOld(embeddings, m.id, re.model) ELSE embeddings
  /\ re' = Processed(re, re.stats)
  /\ UNCHANGED << memories, nextId, now, config, exceptRe >>

\* ------------------------------------------------------------- migrations
\* the schema is the set of the database's named objects (extensions, types, tables,
\* columns, constraints, indexes), each with its definition
Has(objects, name) == \E o \in objects : o.name = name
Without(objects, name) == {o \in objects : o.name # name}

\* CREATE ... / ALTER TABLE ... ADD COLUMN ...; guarded: with IF NOT EXISTS
Create(name, def, guarded) == [op |-> "create", name |-> name, def |-> def,
                               guarded |-> guarded]
\* DROP ... / ALTER TABLE ... DROP CONSTRAINT ...; guarded: with IF EXISTS
Drop(name, guarded) == [op |-> "drop", name |-> name, def |-> "", guarded |-> guarded]

\* one statement on the schema: an unguarded CREATE of a name that exists fails, a
\* guarded one leaves the object as it is; likewise DROP of a name that does not exist
Statement(objects, s) ==
  IF s.op = "create"
    THEN IF ~Has(objects, s.name)
           THEN [err |-> "", schema |-> objects \cup {[name |-> s.name, def |-> s.def]}]
         ELSE IF s.guarded THEN [err |-> "", schema |-> objects]
         ELSE [err |-> "already exists", schema |-> objects]
  ELSE IF Has(objects, s.name)
         THEN [err |-> "", schema |-> Without(objects, s.name)]
       ELSE IF s.guarded THEN [err |-> "", schema |-> objects]
       ELSE [err |-> "does not exist", schema |-> objects]

Migration001 ==
  << Create("vector", "extension", TRUE),
     Create("pg_trgm", "extension", TRUE),
     Create("memories", "table", TRUE),
     Create("memory_embeddings", "table", TRUE),
     Create("memory_embeddings_pkey", "(memory_id)", TRUE),
     Create("idx_memories_text_trgm", "gin (text)", TRUE),
     Create("idx_memories_tenant", "(tenant_id)", TRUE),
     Create("idx_memories_kind", "(kind)", TRUE),
     Create("idx_memories_tags", "gin (tags)", TRUE),
     Create("idx_memory_embed_hnsw", "hnsw (embedding)", TRUE) >>

Migration002 ==
  << Create("memories.workspace_id", "column", TRUE),
     Create("idx_memories_tenant_workspace", "(tenant_id, workspace_id)", TRUE),
     Drop("idx_memories_text_trgm", TRUE),
     Create("idx_memories_text_trgm", "gin (text)", TRUE) >>

\* ADD PRIMARY KEY has no IF NOT EXISTS: a table has one primary key
Migration003 ==
  << Drop("memory_embeddings_pkey", TRUE),
     Create("memory_embeddings_pkey", "(memory_id, model)", FALSE),
     Create("memory_embeddings.created_at", "column", TRUE),
     Create("idx_memory_embeddings_model", "(model)", TRUE) >>

\* CREATE TYPE has no IF NOT EXISTS
Migration004 ==
  << Create("entity_type", "enum", FALSE),
     Create("entities", "table", TRUE),
     Create("memory_entities", "table", TRUE),
     Create("entity_relations", "table", TRUE),
     Create("idx_entities_tenant_workspace", "(tenant_id, workspace_id)", TRUE),
     Create("idx_entities_type", "(type)", TRUE),
     Create("idx_entities_name_trgm", "gin (name)", TRUE),
     Create("idx_memory_entities_memory", "(memory_id)", TRUE),
     Create("idx_memory_entities_entity", "(entity_id)", TRUE),
     Create("idx_entity_relations_source", "(source_id)", TRUE),
     Create("idx_entity_relations_target", "(target_id)", TRUE),
     Create("idx_entity_relations_type", "(relation_type)", TRUE) >>

\* the embedded .sql files, sorted by name
sqlFiles == << Migration001, Migration002, Migration003, Migration004 >>

\* pool.Exec of a file's content: its statements in order
RECURSIVE Exec(_, _)
Exec(objects, statements) ==
  IF statements = << >> THEN [err |-> "", schema |-> objects]
  ELSE LET r == Statement(objects, Head(statements))
       IN IF r.err # "" THEN r ELSE Exec(r.schema, Tail(statements))

\* the schema a first start leaves in an empty database
RECURSIVE ExecAll(_, _)
ExecAll(objects, files) ==
  IF files = << >> THEN objects
  ELSE ExecAll(Exec(objects, Head(files)).schema, Tail(files))

Migrated == ExecAll({}, sqlFiles)

\* the runner: file and stmt are its position, saved the schema the file's
\* transaction started from, start the schema the run found
NoMigrate == [pc |-> "idle", file |-> 0, stmt |-> 0, saved |-> {}, start |-> {},
              err |-> ""]

Migrate ==
  /\ mig.pc \in {"idle", "done"}
  /\ mig' = [NoMigrate EXCEPT !.pc = "exec", !.file = 1, !.stmt = 1,
                              !.saved = schema, !.start = schema]
  /\ UNCHANGED << memories, embeddings, nextId, now, multiEmbedder, sw, proc, schema, stdio, links, rel, peer, handlers >>

\* one statement of the file in execution; the file is one multi-statement query, so
\* a statement that fails rolls the whole file back and ends the run
MigrateExec(dbOk) ==
  /\ mig.pc = "exec"
  /\ LET statements == sqlFiles[mig.file]
         r == IF dbOk THEN Statement(schema, statements[mig.stmt])
              ELSE [err |-> "connection", schema |-> schema]
     IN IF r.err # ""
          THEN /\ schema' = mig.saved
               /\ mig' = [mig EXCEPT !.pc = "done", !.err = r.err]
        ELSE IF mig.stmt < Len(statements)
          THEN /\ schema' = r.schema
               /\ mig' = [mig EXCEPT !.stmt = @ + 1]
        ELSE IF mig.file < Len(sqlFiles)
          THEN /\ schema' = r.schema
               /\ mig' = [mig EXCEPT !.file = @ + 1, !.stmt = 1, !.saved = r.schema]
        ELSE /\ schema' = r.schema
             /\ mig' = [mig EXCEPT !.pc = "done", !.saved = r.schema]
  /\ UNCHANGED << memories, embeddings, nextId, now, multiEmbedder, sw, proc, stdio, links, rel, peer, handlers >>

\* ------------------------------------------------------------- JSON-RPC server
JSONRPCVersion == "2.0"
ParseError == -32700
InvalidRequest == -32600
MethodNotFound == -32601
InvalidParams == -32602

\* params of tools/call: parses says whether they unmarshal into ToolCallParams,
\* name is the tool, id the argument of memory.delete
RawParams(parses, name, id) == [parses |-> parses, name |-> name, id |-> id]
\* a line of stdin: empty, or text that parses as a Request or does not; id is None
\* for a null or absent id
RequestLine(jsonrpc, id, method, params) ==
  [empty |-> FALSE, parses |-> TRUE, jsonrpc |-> jsonrpc, id |-> id, method |-> method,
   params |-> params]
EmptyLine == [RequestLine("", None, "", RawParams(FALSE, "", 0)) EXCEPT !.empty = TRUE]
Garbled(id) == [RequestLine("", id, "", RawParams(FALSE, "", 0)) EXCEPT !.parses = FALSE]

\* the tools this server has registered
DeleteTool == "memory.delete"

\* the request reaches the handler of memory.delete
CallsDelete(line) ==
  /\ ~line.empty /\ line.parses /\ line.jsonrpc = JSONRPCVersion
  /\ line.method = "tools/call"
  /\ line.params.parses /\ line.params.name = DeleteTool

\* route: the result, or the code of the error; handlerErr is what the tool's handler
\* returned
route(method, params, handlerErr) ==
  IF method \in {"initialize", "tools/list", "ping"} THEN [result |-> method, code |-> 0]
  ELSE IF method = "initialized" THEN [result |-> "", code |-> 0]
  ELSE IF method = "tools/call"
    THEN IF ~params.parses THEN [result |-> "", code |-> InvalidParams]
         ELSE IF params.name # DeleteTool THEN [result |-> "", code |-> MethodNotFound]
         ELSE [result |-> IF handlerErr # "" THEN "isError" ELSE "ok", code |-> 0]
  ELSE [result |-> "", code |-> MethodNotFound]

ErrorResponse(id, code) == Some([id |-> id, result |-> "", code |-> code])

\* a notification gets no result, after the version and routing errors have been
\* answered
Notified(line, routed) ==
  IF ~line.parses THEN ErrorResponse(None, ParseError)
  ELSE IF line.jsonrpc # JSONRPCVersion THEN ErrorResponse(line.id, InvalidRequest)
  ELSE IF routed.code # 0 THEN ErrorResponse(line.id, routed.code)
  ELSE IF line.id = None THEN None
  ELSE Some([id |-> line.id, result |-> routed.result, code |-> 0])

\* handleRequest: the response to write, None for none
handleRequest(line, handlerErr) ==
  Notified(line, route(line.method, line.params, handlerErr))

\* one turn of Run's loop: a line is read and handled and its response written;
\* stdio keeps each line read next to the response line written for it
Run(line, writeOk) ==
  /\ Len(stdio) <= MaxLines
  /\ IF CallsDelete(line) /\ line.params.id # 0
       THEN LET r == DeleteMemory(memories, embeddings, P, line.params.id)
                err == IF r.err # "" THEN "delete memory: memory not found" ELSE ""
                response == handleRequest(line, err)
            IN /\ memories' = r.memories
               /\ embeddings' = r.embeddings
               /\ del' = [id |-> line.params.id, err |-> err]
               /\ stdio' = Append(stdio, [line |-> line,
                                          written |-> IF writeOk THEN response ELSE None,
                                          writeOk |-> writeOk \/ response = None])
     ELSE IF CallsDelete(line)
       THEN LET response == handleRequest(line, "id is required")
            IN /\ del' = [id |-> 0, err |-> "id is required"]
               /\ stdio' = Append(stdio, [line |-> line,
                                          written |-> IF writeOk THEN response ELSE None,
                                          writeOk |-> writeOk \/ response = None])
               /\ UNCHANGED << memories, embeddings >>
     ELSE LET response == IF line.empty THEN None ELSE handleRequest(line, "")
          IN /\ stdio' = Append(stdio, [line |-> line,
                                        written |-> IF writeOk THEN response ELSE None,
                                        writeOk |-> writeOk \/ response = None])
             /\ UNCHANGED << memories, embeddings, del >>
  /\ UNCHANGED << nextId, now, multiEmbedder, sw, proc, schema, mig, links, rel, peer, exceptDel >>

\* ------------------------------------------------------------- entities
\* links is the table memory_entities: rows (memory_id, entity_id), primary key both
\* columns, memory_id referencing memories
LinkMemoryEntity(memoryID, entityID) ==
  /\ memoryID \in DOMAIN memories
  /\ links' = links \cup {[memory_id |-> memoryID, entity_id |-> entityID]}
  /\ UNCHANGED << memories, embeddings, nextId, now, multiEmbedder, sw, proc, schema, mig, stdio,
                  rel, peer, handlers >>

\* the rows of FROM memories m JOIN memory_entities me2 ON m.id = me2.memory_id
\* JOIN memory_entities me1 ON me1.entity_id = me2.entity_id AND me1.memory_id = $1
\* for one m
Joined(rows, id, memoryID) ==
  {pr \in rows \X rows :
     /\ pr[1].memory_id = id
     /\ pr[2].entity_id = pr[1].entity_id /\ pr[2].memory_id = memoryID}

\* COUNT(DISTINCT me1.entity_id) over the joined rows of the group
SourceCount(rows, id, memoryID) ==
  Cardinality({pr[2].entity_id : pr \in Joined(rows, id, memoryID)})

\* GROUP BY m.id ORDER BY m.id, score DESC LIMIT $4
GetRelatedMemories(mems, rows, p, memoryID, limit) ==
  LET ids == {i \in DOMAIN mems :
                /\ i # memoryID /\ InPartition(mems[i], p)
                /\ Joined(rows, i, memoryID) # {}}
      ordered == Sorted(ids, {pr \in ids \X ids : pr[1] < pr[2]})
      scored == [i \in 1..Len(ordered) |->
                   LET shared == Cardinality({pr[1].entity_id :
                                                pr \in Joined(rows, ordered[i], memoryID)})
                       src == SourceCount(rows, ordered[i], memoryID)
                   IN [id |-> ordered[i],
                       score |-> Rat(shared, IF src > 1 THEN src ELSE 1)]]
  IN Limit(scored, IF limit <= 0 THEN DefaultLimit ELSE limit)

NoRelated == [pc |-> "idle", memoryID |-> 0, k |-> 0, results |-> << >>]

GetRelated(p, memoryID, k) ==
  /\ rel' = [pc |-> "done", memoryID |-> memoryID, k |-> k,
             results |-> GetRelatedMemories(memories, links, p, memoryID, k)]
  /\ UNCHANGED << memories, embeddings, nextId, now, multiEmbedder, sw, proc, schema, mig, stdio,
                  links, peer, handlers >>

\* ------------------------------------------------------------- sweeper lifecycle
\* The Sweeper object: running and done are its fields (done is the number of the
\* channel, 0 for nil), made counts the channels made, closes how often each was
\* closed, loops holds the goroutines Start has launched, stops the calls of Stop.
\* late says that runSweep was called with a context already cancelled, refused that
\* Start has logged "already running".
MaxStarts == 2
Callers == {"run", "other"}
NewSweeper == [running |-> FALSE, done |-> 0, made |-> 0, closes |-> << >>,
               loops |-> << >>,
               stops |-> [c \in Callers |-> [pc |-> "idle", done |-> 0]],
               late |-> FALSE, refused |-> FALSE]

\* run(): ctx is the context of signal.NotifyContext
NoProcess == [pc |-> "init", cancelled |-> FALSE, err |-> ""]

exceptSw == << memories, embeddings, nextId, now, multiEmbedder, schema, mig, stdio,
              links, rel, peer, handlers >>

\* a SIGINT or SIGTERM, or any other cancellation of the context given to Start
Cancel ==
  /\ ~proc.cancelled
  /\ proc' = [proc EXCEPT !.cancelled = TRUE]
  /\ UNCHANGED << sw, exceptSw >>

\* Start's critical section and its go statement
Started_Always(s) ==
  [s EXCEPT !.running = TRUE, !.done = s.made + 1, !.made = @ + 1,
            !.closes = Append(@, 0),
            !.loops = Append(@, [pc |-> "initial", tick |-> FALSE])]
Started(s) ==
  IF s.running THEN [s EXCEPT !.refused = TRUE]
  ELSE [s EXCEPT !.running = TRUE, !.done = s.made + 1, !.made = @ + 1,
                 !.closes = Append(@, 0),
                 !.loops = Append(@, [pc |-> "initial", tick |-> FALSE])]

Start ==
  /\ sw.made < MaxStarts
  /\ sw' = Started(sw)
  /\ UNCHANGED << proc, exceptSw >>

\* the ticker of loop l delivers a tick; its channel holds one
TickerFire(l) ==
  /\ l \in DOMAIN sw.loops
  /\ sw.loops[l].pc \in {"initial", "select"} /\ ~sw.loops[l].tick
  /\ sw' = [sw EXCEPT !.loops[l].tick = TRUE]
  /\ UNCHANGED << proc, exceptSw >>

\* s.runSweep(ctx) of loop l, as the first statement of the goroutine or on a tick:
\* with the context cancelled, or the database failing, DeleteExpired returns an
\* error, which is logged
LoopSweep(l, dbOk) ==
  /\ l \in DOMAIN sw.loops
  /\ \/ sw.loops[l].pc = "initial"
     \/ sw.loops[l].pc = "select" /\ sw.loops[l].tick
  /\ sw' = [sw EXCEPT !.loops[l] = [pc |-> "select",
                                    tick |-> IF sw.loops[l].pc = "initial" THEN @.tick
                                             ELSE FALSE],
                      !.late = @ \/ proc.cancelled]
  /\ IF dbOk /\ ~proc.cancelled
       THEN LET r == DeleteExpired(memories, embeddings, P, now)
            IN /\ memories' = r.memories
               /\ embeddings' = r.embeddings
               /\ swept' = r.deleted
       ELSE UNCHANGED << memories, embeddings, swept >>
  /\ UNCHANGED << proc, nextId, now, multiEmbedder, schema, mig, stdio, links, rel, peer,
                  exceptSweep >>

\* the deferred function of the goroutine: running = false; close(s.done)
Exited_NoClose(s, l) == [s EXCEPT !.loops[l].pc = "exited", !.running = FALSE]
Exited(s, l) ==
  [s EXCEPT !.loops[l].pc = "exited", !.running = FALSE, !.closes[s.done] = @ + 1]

\* case <-ctx.Done(): return
LoopExit(l) ==
  /\ l \in DOMAIN sw.loops
  /\ sw.loops[l].pc = "select" /\ proc.cancelled
  /\ sw' = Exited(sw, l)
  /\ UNCHANGED << proc, exceptSw >>

\* Stop's critical section: the caller returns at once when the sweeper is not
\* running, else it takes the done channel to wait on
Entered(s, c) ==
  IF s.running THEN [s EXCEPT !.stops[c] = [pc |-> "waiting", done |-> s.done]]
  ELSE [s EXCEPT !.stops[c].pc = "returned"]

StopEnter(c) ==
  /\ sw.stops[c].pc = "idle"
  /\ sw' = Entered(sw, c)
  /\ UNCHANGED << proc, exceptSw >>

\* <-done
StopReturn(c) ==
  /\ sw.stops[c].pc = "waiting"
  /\ sw.closes[sw.stops[c].done] > 0
  /\ sw' = [sw EXCEPT !.stops[c].pc = "returned"]
  /\ UNCHANGED << proc, exceptSw >>

\* run(): sw.Start(ctx, interval) with the sweeper enabled, then server.Run
RunStart ==
  /\ proc.pc = "init"
  /\ sw' = Started(sw)
  /\ proc' = [proc EXCEPT !.pc = "serving"]
  /\ UNCHANGED exceptSw

\* server.Run returns nil at the end of standard input, or ctx.Err() when it finds
\* the context cancelled at the top of its loop; run() returns the error at once
RunReturned(eof) ==
  /\ proc.pc = "serving"
  /\ eof \/ proc.cancelled
  /\ proc' = IF eof THEN [proc EXCEPT !.pc = "eof"]
             ELSE [proc EXCEPT !.pc = "returned", !.err = "run server"]
  /\ UNCHANGED << sw, exceptSw >>

\* if sw != nil { sw.Stop() }
RunStop ==
  /\ proc.pc = "eof"
  /\ sw' = Entered(sw, "run")
  /\ proc' = [proc EXCEPT !.pc = "stopping"]
  /\ UNCHANGED exceptSw

\* Stop has returned: run() returns nil and its deferred cancel() runs
RunExit ==
  /\ proc.pc = "stopping" /\ sw.stops["run"].pc = "returned"
  /\ proc' = [proc EXCEPT !.pc = "returned", !.cancelled = TRUE]
  /\ UNCHANGED << sw, exceptSw >>

\* ------------------------------------------------------------- specification
\* the handlers of the store of partition P, next to a second server whose store is
\* bound to partition Q and shares the database
NoArgs == [text |-> "", kind |-> "", importance |-> None, ttl_days |-> None]
AddArgs == {NoArgs, [NoArgs EXCEPT !.text = "a"]}
Patches == {NoPatch, [NoPatch EXCEPT !.text = Some("b")]}
Queries == {"a", "b"}

Init ==
  /\ memories = << >>
  /\ embeddings = {}
  /\ nextId = 1
  /\ now = 0
  /\ multiEmbedder = FALSE
  /\ add = Idle
  /\ upd = Idle
  /\ del = [id |-> 0, err |-> ""]
  /\ swept = 0
  /\ imp = NoImport
  /\ exp = NoExport
  /\ re = NoReembed
  /\ original = [memories |-> << >>, embeddings |-> {}]
  /\ srch = NoSearch
  /\ schema = Migrated
  /\ mig = [NoMigrate EXCEPT !.pc = "done", !.file = Len(sqlFiles),
                             !.stmt = Len(Migration004), !.saved = Migrated]
  /\ stdio = << >>
  /\ links = {}
  /\ rel = NoRelated
  /\ peer = Idle
  /\ sw = NewSweeper
  /\ proc = NoProcess

Next ==
  \/ \E p \in Partitions, args \in AddArgs : createAddHandler(p, args)
  \/ \E ok \in BOOLEAN : AddEmbed(ok)
  \/ \E model \in MultiModels, dbOk \in BOOLEAN : AddStore(model, dbOk)
  \/ \E id \in 0..MaxId, patch \in Patches : createUpdateHandler(P, id, patch)
  \/ \E ok \in BOOLEAN : UpdateEmbed(ok)
  \/ \E model \in MultiModels, dbOk \in BOOLEAN : UpdateStore(model, dbOk)
  \/ \E id \in 0..MaxId : createDeleteHandler(P, id)

Spec == Init /\ [][Next]_vars

\* ------------------------------------------------------------- partition isolation
Foreign(p, id) == id \in DOMAIN memories /\ ~InPartition(memories[id], p)

C1_Reads ==
  \A p \in Partitions :
    /\ \A id \in DOMAIN memories : Foreign(p, id) =>
         /\ GetMemory(memories, p, id) = None
         /\ \A patch \in Patches :
              UpdateMemory(memories, p, id, patch, now) =
                [err |-> "memory not found", memories |-> memories]
         /\ DeleteMemory(memories, embeddings, p, id) =
              [err |-> "memory not found", memories |-> memories, embeddings |-> embeddings]
    /\ \A q \in Queries, model \in {""} \cup MultiModels :
         /\ \A id \in Ids(VectorSearch(memories, embeddings, p, Embed(PrimaryModel, q), 0,
                                       model).rows) : ~Foreign(p, id)
         /\ \A id \in Ids(LexicalSearch(memories, p, q, 0).rows) : ~Foreign(p, id)

C1_Writes ==
  \A id \in 1..MaxId :
    Foreign(P, id) =>
      /\ \A patch \in Patches : createUpdateHandler(P, id, patch) =>
           /\ upd' = Returned(Idle, id, "update memory: memory not found")
           /\ UNCHANGED << memories, embeddings >>
      /\ createDeleteHandler(P, id) =>
           /\ del'.err = "delete memory: memory not found"
           /\ UNCHANGED << memories, embeddings >>

\* C1: for a store bound to partition p, a memory owned by another partition is not
\* returned by getMemory, updateMemory and deleteMemory of its id fail with not-found and
\* leave the memory and its embeddings unchanged, and vectorSearch and lexicalSearch
\* return only memories owned by p.
C1_PartitionIsolation == []C1_Reads /\ [][C1_Writes]_vars

\* a memory of Q with an embedding, next to a memory of P that a search of P returns,
\* after update and delete of the store of P have been refused for Q's memory
C1_Witness ==
  \E id \in DOMAIN memories :
    /\ InPartition(memories[id], Q)
    /\ EmbeddingsOf(embeddings, id) # {}
    /\ upd = Returned(Idle, id, "update memory: memory not found")
    /\ del = [id |-> id, err |-> "delete memory: memory not found"]
    /\ VectorSearch(memories, embeddings, P, Embed(PrimaryModel, "a"), 0, "").rows # << >>
    /\ LexicalSearch(memories, P, "a", 0).rows # << >>

\* ------------------------------------------------------------- memory.add, failures
\* C7: when embedding generation or the embedding upsert fails, add still returns the new
\* id without error; no step of add after the insert changes the memories table, and no
\* gateway call is made before the row is inserted.
C7_AddSurvivesEmbeddingFailure ==
  [][ /\ (add.pc \in {"inserted", "storing"} /\ add' # add) =>
           /\ memories' = memories
           /\ add'.id = add.id
           /\ add'.err = ""
      /\ (add.pc \in {"idle", "done"} /\ add' # add) =>
           /\ add'.embedCalls = 0
           /\ add'.pc = "inserted" => GetMemory(memories', P, add'.id) # None
                                       \/ GetMemory(memories', Q, add'.id) # None ]_vars

\* add has returned the id of a stored memory that has no embedding, after a gateway call
C7_Witness ==
  /\ add.pc = "done" /\ add.err = "" /\ add.embedCalls = 1
  /\ GetMemory(memories, P, add.id) # None
  /\ EmbeddingsOf(embeddings, add.id) = {}

InPartitionCount(mems, p) == Cardinality({i \in DOMAIN mems : InPartition(mems[i], p)})

\* C8: add with an empty text returns an invalid-argument error, writes no memory row,
\* makes no embedding call and stores no embedding; the memory count is unchanged.
C8_EmptyTextRejected ==
  [][ \A p \in Partitions : createAddHandler(p, NoArgs) =>
        /\ add' = Returned(Idle, 0, "text is required")
        /\ add'.embedCalls = 0
        /\ UNCHANGED << memories, embeddings, nextId >>
        /\ InPartitionCount(memories', p) = InPartitionCount(memories, p) ]_vars

C8_Witness ==
  /\ add = Returned(Idle, 0, "text is required")
  /\ InPartitionCount(memories, P) > 0
  /\ embeddings # {}

\* C10: update of an id that matches no row of the current partition returns not-found,
\* changes no memory, makes no gateway call and writes no embedding, with or without
\* patch.text.
C10_UpdateNotFound ==
  [][ \A id \in 1..MaxId, patch \in Patches :
        (createUpdateHandler(P, id, patch) /\ ~Matches(memories, P, id)) =>
           /\ upd' = Returned(Idle, id, "update memory: memory not found")
           /\ upd'.embedCalls = 0
           /\ UNCHANGED << memories, embeddings >> ]_vars

\* update has been refused for an id that is in no partition, with memories stored
C10_Witness ==
  /\ upd = Returned(Idle, upd.id, "update memory: memory not found")
  /\ upd.id \notin DOMAIN memories
  /\ InPartitionCount(memories, P) > 0
  /\ embeddings # {}

\* ------------------------------------------------------------- sweeper
\* the sweeper of the server bound to P, the clock, and adds with and without a TTL to
\* both partitions
SweepAddArgs == {[NoArgs EXCEPT !.text = "a", !.ttl_days = ttl] : ttl \in {None, Some(1)}}

NextSweep ==
  \/ \E p \in Partitions, args \in SweepAddArgs : createAddHandler(p, args)
  \/ \E ok \in BOOLEAN : AddEmbed(ok)
  \/ \E model \in MultiModels, dbOk \in BOOLEAN : AddStore(model, dbOk)
  \/ runSweep(P)
  \/ Tick

SpecSweep == Init /\ [][NextSweep]_vars

SearchedIds(mems, embs, p) ==
  UNION {Ids(VectorSearch(mems, embs, p, Embed(PrimaryModel, q), 0, model).rows)
           \cup Ids(LexicalSearch(mems, p, q, 0).rows) :
         q \in Queries, model \in {""} \cup MultiModels}

\* C6: one sweep deletes exactly the memories of the sweeper's partition that have a TTL
\* and whose created_at + ttl_days is earlier than now; every other memory and its
\* embeddings are unchanged, and no get or search returns a swept memory afterwards.
C6_SweepDeletesExactlyExpired ==
  [][ runSweep(P) =>
        LET due == {i \in DOMAIN memories :
                      /\ memories[i].tenant_id = P.tenant
                      /\ memories[i].workspace_id = P.workspace
                      /\ memories[i].ttl_days # None
                      /\ memories[i].created_at + memories[i].ttl_days[1] < now}
        IN /\ DOMAIN memories' = DOMAIN memories \ due
           /\ \A i \in DOMAIN memories' : memories'[i] = memories[i]
           /\ embeddings' = {e \in embeddings : e.memory_id \notin due}
           /\ swept' = Cardinality(due)
           /\ \A i \in due, p \in Partitions :
                /\ GetMemory(memories', p, i) = None
                /\ i \notin SearchedIds(memories', embeddings', p) ]_vars

\* a sweep has deleted a memory of P while an expired memory of Q with an embedding stays
C6_Witness ==
  /\ swept > 0
  /\ \E i \in DOMAIN memories :
       /\ InPartition(memories[i], Q)
       /\ Expired(memories[i], now)
       /\ EmbeddingsOf(embeddings, i) # {}

\* a sweep has left alone a memory of P without TTL and one whose TTL has not elapsed
C6_WitnessKept ==
  /\ swept = 0 /\ now = MaxTime
  /\ \E i \in DOMAIN memories : InPartition(memories[i], P) /\ memories[i].ttl_days = None
  /\ \E i \in DOMAIN memories : InPartition(memories[i], P) /\ memories[i].ttl_days # None

\* ------------------------------------------------------------- import next to the handlers
\* lines such as an export of another database holds: records created at time 0, with
\* and without an embedding, and a line that is no JSON
ExportedRecord(id, embedding) ==
  Encode([ZeroRecord EXCEPT !.id = id, !.tenant_id = Q.tenant, !.workspace_id = Q.workspace,
                            !.kind = DefaultKind, !.text = "b",
                            !.importance = DefaultImportance, !.tags = Some(<< >>),
                            !.meta = Some(EmptyMeta), !.embedding = embedding])

EmbeddingOf(model, text) ==
  Some([model |-> model, dims |-> Len(Embed(model, text)), vector |-> Embed(model, text)])

ImportLines ==
  {ExportedRecord(id, e) : id \in 1..MaxId, e \in {None, EmbeddingOf(PrimaryModel, "b")}}
    \cup {Malformed}

ImportData == UNION {[1..n -> ImportLines] : n \in 0..MaxLines}

ImportOpts == [skipExisting : BOOLEAN, regenerate : BOOLEAN, dryRun : BOOLEAN]

NextImport ==
  \/ \E p \in Partitions : createAddHandler(p, [NoArgs EXCEPT !.text = "a"])
  \/ \E ok \in BOOLEAN : AddEmbed(ok)
  \/ \E model \in MultiModels, dbOk \in BOOLEAN : AddStore(model, dbOk)
  \/ \E data \in ImportData, opts \in ImportOpts : createImportHandler(P, data, opts)
  \/ \E dbOk \in BOOLEAN : ImportScan(dbOk)
  \/ \E embedOk, dbOk \in BOOLEAN : ImportRecord(embedOk, dbOk)

SpecImport == Init /\ [][NextImport]_vars

\* C2: an import for partition P leaves every memory of another partition, and its
\* embeddings, as they were, with skipExisting or without.
C2_ImportLeavesOtherPartitions ==
  [][(\E embedOk, dbOk \in BOOLEAN : ImportRecord(embedOk, dbOk)) =>
       \A id \in DOMAIN memories :
          ~InPartition(memories[id], imp.p) =>
             /\ id \in DOMAIN memories'
             /\ memories'[id] = memories[id]
             /\ EmbeddingsOf(embeddings', id) = EmbeddingsOf(embeddings, id)]_vars

\* ------------------------------------------------------------- timestamps
\* add, update and import of partition P while the clock advances
StampData == {<< ExportedRecord(id, None) >> : id \in 1..MaxId}

NextStamps ==
  \/ createAddHandler(P, [NoArgs EXCEPT !.text = "a"])
  \/ \E ok \in BOOLEAN : AddEmbed(ok)
  \/ \E model \in MultiModels, dbOk \in BOOLEAN : AddStore(model, dbOk)
  \/ \E id \in 1..MaxId : createUpdateHandler(P, id, NoPatch)
  \/ Tick
  \/ \E data \in StampData : createImportHandler(P, data, NoImport.opts)
  \/ \E dbOk \in BOOLEAN : ImportScan(dbOk)
  \/ \E embedOk, dbOk \in BOOLEAN : ImportRecord(embedOk, dbOk)

SpecStamps == Init /\ [][NextStamps]_vars

\* C9: every memory has updated_at >= created_at after any sequence of add, update
\* and import.
C9_UpdatedNotBeforeCreated ==
  \A id \in DOMAIN memories : memories[id].updated_at >= memories[id].created_at

\* ------------------------------------------------------------- all writers of embeddings
\* add, delete, the sweeper and the clock of partition P, interleaved statement by
\* statement with one further kind of writer per behaviour: updates, a re-embed job or
\* an import
AllAddArgs == [NoArgs EXCEPT !.text = "a", !.ttl_days = Some(0)]
AllPatch == [NoPatch EXCEPT !.text = Some("b")]
AllReembedCfgs == {[NoReembed.cfg EXCEPT !.batchSize = 1, !.targetModel = SecondModel,
                                         !.skipExisting = FALSE, !.deleteOld = d] :
                     d \in BOOLEAN}
Resting(tasks) == \A t \in tasks : t.pc = "idle"
AllData == {<< ExportedRecord(1, e) >> : e \in {None, EmbeddingOf(PrimaryModel, "b")}}
AllOpts == {[NoImport.opts EXCEPT !.regenerate = r] : r \in BOOLEAN}

NextAll ==
  \/ createAddHandler(P, AllAddArgs)
  \/ \E ok \in BOOLEAN : AddEmbed(ok)
  \/ \E model \in MultiModels, dbOk \in BOOLEAN : AddStore(model, dbOk)
  \/ \E id \in 1..MaxId :
        Resting({re, imp}) /\ createUpdateHandler(P, id, AllPatch)
  \/ \E ok \in BOOLEAN : UpdateEmbed(ok)
  \/ \E model \in MultiModels, dbOk \in BOOLEAN : UpdateStore(model, dbOk)
  \/ \E id \in 1..MaxId : createDeleteHandler(P, id)
  \/ runSweep(P)
  \/ Tick
  \/ \E cfg \in AllReembedCfgs : Resting({upd, imp}) /\ ReembedAll(P, cfg, None)
  \/ \E cancelled \in BOOLEAN : ReembedBatch(cancelled, FALSE)
  \/ \E checkOk, ok \in BOOLEAN : ReembedItem(checkOk, ok)
  \/ \E dbOk \in BOOLEAN : ReembedStore(dbOk)
  \/ \E dbOk \in BOOLEAN : ReembedDeleteOld(dbOk)
  \/ \E data \in AllData, opts \in AllOpts :
        Resting({upd, re}) /\ createImportHandler(P, data, opts)
  \/ \E dbOk \in BOOLEAN : ImportScan(dbOk)
  \/ \E embedOk, dbOk \in BOOLEAN : ImportRecord(embedOk, dbOk)

SpecAll == Init /\ [][NextAll]_vars

\* C3: under any interleaving of add, update, delete, sweeper, re-embed and import,
\* every stored embedding references an existing memory; an upsert of an embedding
\* that comes after the memory's deletion stores nothing.
C3_NoOrphan == \A e \in embeddings : e.memory_id \in DOMAIN memories

C3_UpsertAfterDelete ==
  /\ \A model \in MultiModels :
        AddStore(model, TRUE) /\ add.id \notin DOMAIN memories => embeddings' = embeddings
  /\ \A model \in MultiModels :
        UpdateStore(model, TRUE) /\ upd.id \notin DOMAIN memories => embeddings' = embeddings
  /\ ReembedStore(TRUE) /\ Head(re.batch).id \notin DOMAIN memories =>
        embeddings' = embeddings /\ re'.stats.errors = re.stats.errors + 1

C3_EmbeddingsReferenceMemories == []C3_NoOrphan /\ [][C3_UpsertAfterDelete]_vars

\* a handler about to store the vector of a memory that was deleted meanwhile, another
\* memory keeping its embedding
C3_Witness ==
  /\ add.pc = "storing"
  /\ add.id \notin DOMAIN memories
  /\ embeddings # {}

\* C4: at most one embedding per (memory, model); every embedding write (the store's
\* upsert, the re-embed upsert, the import upsert) for an existing pair replaces that
\* pair's vector instead of adding a second row or failing.
HasEmbedding(embs, id, model) == \E e \in embs : e.memory_id = id /\ e.model = model

VectorOf(embs, id, model) ==
  {e.embedding : e \in {r \in embs : r.memory_id = id /\ r.model = model}}

C4_OnePerPair ==
  \A e1, e2 \in embeddings :
     e1.memory_id = e2.memory_id /\ e1.model = e2.model => e1 = e2

C4_WriteReplaces ==
  /\ \A model \in MultiModels :
        AddStore(model, TRUE) /\ HasEmbedding(embeddings, add.id, model) =>
           VectorOf(embeddings', add.id, model) = {Embed(model, add.text)}
  /\ \A model \in MultiModels :
        UpdateStore(model, TRUE) /\ HasEmbedding(embeddings, upd.id, model) =>
           VectorOf(embeddings', upd.id, model) = {Embed(model, upd.text)}
  /\ ReembedStore(TRUE) /\ HasEmbedding(embeddings, Head(re.batch).id, re.model) =>
        VectorOf(embeddings', Head(re.batch).id, re.model)
          = {Embed(PrimaryModel, Head(re.batch).text)}
  /\ LET record == Head(imp.input).rec
     IN ImportRecord(TRUE, TRUE) /\ ~imp.opts.regenerate /\ record.embedding # None
          /\ HasEmbedding(embeddings, record.id, record.embedding[1].model) =>
            /\ VectorOf(embeddings', record.id, record.embedding[1].model)
                 = {record.embedding[1].vector}
            /\ imp'.stats.errors = imp.stats.errors

C4_EveryWriteReplaces == []C4_OnePerPair /\ [][C4_WriteReplaces]_vars

\* ------------------------------------------------------------- export, wipe, import
\* partition P is filled by add and update, exported with its embeddings, emptied by
\* delete and imported again from the exported data; no statement fails for want of a
\* connection
ExportEverything == [includeEmbeddings |-> TRUE, kind |-> "", limit |-> 0]

Empty(p) == \A id \in DOMAIN memories : ~InPartition(memories[id], p)

NextTransfer ==
  \/ exp.pc = "idle" /\ createAddHandler(P, [NoArgs EXCEPT !.text = "a"])
  \/ \E ok \in BOOLEAN : AddEmbed(ok)
  \/ AddStore(PrimaryModel, TRUE)
  \/ \E id \in 1..MaxId : exp.pc = "idle" /\ createUpdateHandler(P, id, AllPatch)
  \/ \E ok \in BOOLEAN : UpdateEmbed(ok)
  \/ UpdateStore(PrimaryModel, TRUE)
  \/ exp.pc = "idle" /\ Tick
  \/ exp.pc = "idle" /\ add.pc \in {"idle", "done"} /\ upd.pc \in {"idle", "done"} /\
       \E pick \in [DOMAIN memories -> {PrimaryModel}] :
          createExportHandler(P, ExportEverything, pick)
  \/ \E id \in DOMAIN memories :
        exp.pc = "done" /\ imp.pc = "idle" /\ createDeleteHandler(P, id)
  \/ exp.pc = "done" /\ imp.pc = "idle" /\ Empty(P) /\ exp.data # << >> /\
       createImportHandler(P, exp.data, NoImport.opts)
  \/ ImportScan(TRUE)
  \/ ImportRecord(TRUE, TRUE)

SpecTransfer == Init /\ [][NextTransfer]_vars

\* what get and the searches can return of partition p: the rows, an absent meta read
\* as the empty map, and the embeddings
Content(mems, embs, p) ==
  LET ids == {i \in DOMAIN mems : InPartition(mems[i], p)}
  IN [rows |-> [i \in ids |-> [mems[i] EXCEPT !.meta = IF @ = "null" THEN EmptyMeta ELSE @]],
      embeddings |-> {e \in embs : e.memory_id \in ids}]

\* C5: exporting all N memories of a partition with their embeddings, wiping the
\* partition and importing the data with skipExisting and regenerate off reports
\* imported = N and errors = 0 and restores the same memories, fields and embeddings.
C5_RoundTrip ==
  imp.pc = "done" =>
    /\ imp.stats.imported = exp.exported
    /\ imp.stats.errors = 0
    /\ Content(memories, embeddings, P) = Content(original.memories, original.embeddings, P)

\* ------------------------------------------------------------- partial update
\* adds and updates of partition P, with patches that name some of the fields, while
\* the clock advances
FramePatches ==
  {NoPatch,
   [NoPatch EXCEPT !.kind = Some("fact"), !.source = Some("chat"), !.tags = Some(<< "t" >>)],
   [NoPatch EXCEPT !.text = Some("b"), !.importance = Some(9), !.ttl_days = Some(7)]}

NextUpdate ==
  \/ createAddHandler(P, [NoArgs EXCEPT !.text = "a"])
  \/ AddEmbed(TRUE)
  \/ \E model \in MultiModels : AddStore(model, TRUE)
  \/ \E id \in 1..MaxId, patch \in FramePatches : createUpdateHandler(P, id, patch)
  \/ \E ok \in BOOLEAN : UpdateEmbed(ok)
  \/ \E model \in MultiModels : UpdateStore(model, TRUE)
  \/ Tick

SpecUpdate == Init /\ [][NextUpdate]_vars

\* C11: an update changes exactly the fields present in the patch plus updated_at;
\* absent fields, id, created_at and the partition keep their values, every other
\* memory and every embedding is left alone, and an empty patch only refreshes
\* updated_at.
C11_Update(id, patch) ==
  LET old == memories[id]
      new == memories'[id]
  IN /\ DOMAIN memories' = DOMAIN memories
     /\ \A other \in DOMAIN memories \ {id} : memories'[other] = memories[other]
     /\ embeddings' = embeddings
     /\ new.updated_at = now
     /\ new.created_at = old.created_at
     /\ new.tenant_id = old.tenant_id /\ new.workspace_id = old.workspace_id
     /\ new.meta = old.meta
     /\ \A f \in {"kind", "text", "tags", "importance"} :
           new[f] = IF patch[f] = None THEN old[f] ELSE patch[f][1]
     /\ \A f \in {"source", "ttl_days"} :
           new[f] = IF patch[f] = None THEN old[f] ELSE patch[f]

C11_UpdateFrame ==
  [][\A id \in 1..MaxId, patch \in FramePatches :
       createUpdateHandler(P, id, patch) /\ id \in DOMAIN memories
         /\ InPartition(memories[id], P) => C11_Update(id, patch)]_vars

\* a memory whose kind and source were patched while its text stayed, refreshed later
C11_Witness ==
  /\ upd.pc = "done" /\ upd.err = ""
  /\ \E id \in DOMAIN memories :
        /\ memories[id].kind = "fact" /\ memories[id].text = "a"
        /\ memories[id].updated_at > memories[id].created_at

\* ------------------------------------------------------------- search
\* adds of partition P, with and without an embedding, and searches of its tool
SearchTexts == {"a", "z", "a b c"}
NoSearchArgs == [query |-> "", k |-> None, hybrid |-> None, model |-> None]
MaxK == 100
Ks == {None, Some(-1), Some(0), Some(1), Some(MaxK), Some(MaxK + 1)}
SearchArgs ==
  {[NoSearchArgs EXCEPT !.query = q, !.k = k, !.hybrid = h] :
     q \in {"", "a"}, k \in Ks, h \in {None, Some(FALSE)}}

NextSearch ==
  \/ \E text \in SearchTexts : createAddHandler(P, [NoArgs EXCEPT !.text = text])
  \/ \E ok \in BOOLEAN : AddEmbed(ok)
  \/ \E model \in MultiModels : AddStore(model, TRUE)
  \/ \E args \in SearchArgs, embedOk \in BOOLEAN : createSearchHandler(P, args, embedOk)

SpecSearch == Init /\ [][NextSearch]_vars

\* the limit the searcher works with: 10 when the one it was handed is not positive
EffectiveLimit(params) == IF params.limit <= 0 THEN DefaultLimit ELSE params.limit

\* the similarity of the memory's best embedding under the model filter, in units of 1/225
BestScore(embs, id, vec, model) ==
  LET scores == {Similarity(e.embedding, vec) :
                   e \in {r \in EmbeddingsOf(embs, id) : model = "" \/ r.model = model}}
  IN CHOOSE m \in scores : \A o \in scores : o <= m

NearestFirst(results, mems, embs, p, params) ==
  LET vec == Embed(PrimaryModel, params.query)
      cand == {i \in DOMAIN mems :
                 /\ InPartition(mems[i], p)
                 /\ \E e \in EmbeddingsOf(embs, i) : params.model = "" \/ e.model = params.model}
      found == Ids(results)
  IN /\ found \subseteq cand
     /\ Len(results) = IF Cardinality(cand) < EffectiveLimit(params) THEN Cardinality(cand)
                       ELSE EffectiveLimit(params)
     /\ Cardinality(found) = Len(results)
     /\ \A i \in 1..Len(results) :
           results[i].score = Rat(BestScore(embs, results[i].id, vec, params.model), Unit)
     /\ \A i, j \in 1..Len(results) : i < j => ~RatLess(results[i].score, results[j].score)
     /\ \A i \in 1..Len(results), c \in cand \ found :
           ~RatLess(results[i].score, Rat(BestScore(embs, c, vec, params.model), Unit))

\* C12: a search with hybrid = false returns the limit memories of the partition
\* nearest to the query vector, nearest first, each memory once and ranked by its
\* best embedding.
C12_VectorSearchTopK ==
  [][srch' # srch /\ srch'.pc = "done" /\ srch'.err = "" /\ ~srch'.params.hybrid =>
       NearestFirst(srch'.results, memories, embeddings, P, srch'.params)]_vars

\* C13: every score a search with hybrid = true returns lies in [0, 1], whatever the
\* vector scores in [-1, 1] and the lexical scores in [0, 1], one set being empty or
\* a set's largest score not being positive included.
C13_HybridScoresInUnitInterval ==
  srch.pc = "done" /\ srch.err = "" /\ srch.params.hybrid =>
    \A i \in 1..Len(srch.results) :
      0 <= srch.results[i].score.n /\ srch.results[i].score.n <= srch.results[i].score.d

\* C14: the results of a search with hybrid = true are in descending order of score,
\* equal scores in ascending order of id, and at most limit of them: the answer is a
\* function of the state and the query.
C14_HybridOrder ==
  srch.pc = "done" /\ srch.err = "" /\ srch.params.hybrid =>
    /\ Len(srch.results) <= EffectiveLimit(srch.params)
    /\ \A i, j \in 1..Len(srch.results) :
          i < j => \/ RatLess(srch.results[j].score, srch.results[i].score)
                   \/ /\ srch.results[i].score = srch.results[j].score
                      /\ srch.results[i].id < srch.results[j].id

\* ------------------------------------------------------------- fusion weights
\* searches of the searcher itself, with a per-call alpha and with the default the
\* searcher was built with (NewHybridSearcher, WithAlpha)
AlphaParams ==
  {[NoParams EXCEPT !.query = "a", !.limit = DefaultLimit, !.hybrid = TRUE, !.alpha = a] :
     a \in {0, 5, AlphaOne}}
SearcherAlphas == {DefaultAlpha, 0}

NextAlpha ==
  \/ \E text \in SearchTexts : createAddHandler(P, [NoArgs EXCEPT !.text = text])
  \/ \E ok \in BOOLEAN : AddEmbed(ok)
  \/ \E model \in MultiModels : AddStore(model, TRUE)
  \/ \E params \in AlphaParams, searcherAlpha \in SearcherAlphas, embedOk \in BOOLEAN :
        SearchCall(P, None, params, searcherAlpha, embedOk)

SpecAlpha == Init /\ [][NextAlpha]_vars

\* the score of id in a result set, divided by the set's largest score when that is
\* positive and as the store gave it otherwise; 0 for a memory the set does not have
MaxNormalized(rows, id) ==
  IF id \notin Ids(rows) THEN Rat(0, 1)
  ELSE LET scores == {rows[i].score : i \in 1..Len(rows)}
           top == CHOOSE m \in scores : \A o \in scores : o <= m
           own == rows[CHOOSE i \in 1..Len(rows) : rows[i].id = id].score
       IN IF top > 0 THEN Rat(own, top) ELSE Rat(own, Unit)

VectorSet(params) ==
  VectorSearch(memories, embeddings, P, Embed(PrimaryModel, params.query),
               fetchLimit(params.limit), params.model).rows
LexicalSet(params) == LexicalSearch(memories, P, params.query, fetchLimit(params.limit)).rows

\* a hybrid search over two non-empty result sets is returning
BothSets ==
  /\ srch' # srch /\ srch'.pc = "done" /\ srch'.err = "" /\ srch'.params.hybrid
  /\ VectorSet(srch'.params) # << >> /\ LexicalSet(srch'.params) # << >>

ScoresAreVector ==
  \A i \in 1..Len(srch'.results) :
    srch'.results[i].score = MaxNormalized(VectorSet(srch'.params), srch'.results[i].id)
ScoresAreLexical ==
  \A i \in 1..Len(srch'.results) :
    srch'.results[i].score = MaxNormalized(LexicalSet(srch'.params), srch'.results[i].id)

\* C15 as stated: over two non-empty result sets a search issued with alpha = 1
\* returns each memory's max-normalized vector score and a search issued with
\* alpha = 0 each memory's max-normalized lexical score, 0 for a memory absent from the set.
C15_IssuedAlpha ==
  [][BothSets => /\ srch'.params.alpha = AlphaOne => ScoresAreVector
                 /\ srch'.params.alpha = 0 => ScoresAreLexical]_vars

EffectiveAlpha(s) == IF s.params.alpha > 0 THEN s.params.alpha ELSE s.searcherAlpha

\* C15 amended: the weight is the per-call alpha when it is positive and the
\* searcher's default otherwise; over two non-empty result sets a weight of 1 returns
\* each memory's vector score and a weight of 0 each memory's lexical score, divided
\* by the set's largest score when that is positive, 0 for a memory absent from the set.
C15_EffectiveAlpha ==
  [][BothSets => /\ EffectiveAlpha(srch') = AlphaOne => ScoresAreVector
                 /\ EffectiveAlpha(srch') = 0 => ScoresAreLexical]_vars

C15_Witness ==
  /\ srch.pc = "done" /\ srch.err = "" /\ srch.params.hybrid
  /\ srch.params.alpha = AlphaOne
  /\ VectorSet(srch.params) # << >> /\ LexicalSet(srch.params) # << >>
  /\ \E i \in 1..Len(srch.results) : srch.results[i].score = Rat(3, 5)

\* C16: memory.search hands the searcher the limit min(max(k, 1), 100) for the k it
\* was asked, 10 when k is not given.
C16_LimitClamped ==
  srch.pc = "done" /\ srch.err # "query is required" =>
    srch.params.limit =
      IF srch.k = None THEN DefaultLimit
      ELSE IF srch.k[1] < 1 THEN 1
      ELSE IF srch.k[1] > MaxK THEN MaxK
      ELSE srch.k[1]

\* ------------------------------------------------------------- importance
\* adds and updates of partition P with an importance, in tenths, inside and
\* outside of [0, 1]
ImportanceOne == 10
Importances == {None, Some(0), Some(ImportanceOne), Some(-1), Some(ImportanceOne + 1)}

NextImportance ==
  \/ \E i \in Importances : createAddHandler(P, [NoArgs EXCEPT !.text = "a", !.importance = i])
  \/ \E ok \in BOOLEAN : AddEmbed(ok)
  \/ \E model \in MultiModels : AddStore(model, TRUE)
  \/ \E id \in 0..MaxId, i \in Importances :
        createUpdateHandler(P, id, [NoPatch EXCEPT !.importance = i])
  \/ Tick

SpecImportance == Init /\ [][NextImportance]_vars

\* C17: after any sequence of memory.add and memory.update calls every stored
\* memory has an importance in [0, 1], a value outside of it being rejected
\* without a write.
C17_ImportanceInRange ==
  \A id \in DOMAIN memories :
    0 <= memories[id].importance /\ memories[id].importance <= ImportanceOne

\* ------------------------------------------------------------- multi-model add
\* a server configured with the multi-model embedder: adds and deletes of partition P
InitMulti ==
  /\ memories = << >>
  /\ embeddings = {}
  /\ nextId = 1
  /\ now = 0
  /\ multiEmbedder = TRUE
  /\ add = Idle
  /\ upd = Idle
  /\ del = [id |-> 0, err |-> ""]
  /\ swept = 0
  /\ imp = NoImport
  /\ exp = NoExport
  /\ re = NoReembed
  /\ original = [memories |-> << >>, embeddings |-> {}]
  /\ srch = NoSearch
  /\ schema = Migrated
  /\ mig = [NoMigrate EXCEPT !.pc = "done", !.file = Len(sqlFiles),
                             !.stmt = Len(Migration004), !.saved = Migrated]
  /\ stdio = << >>
  /\ links = {}
  /\ rel = NoRelated
  /\ peer = Idle
  /\ sw = NewSweeper
  /\ proc = NoProcess

NextMulti ==
  \/ \E text \in {"a", "b"} : createAddHandler(P, [NoArgs EXCEPT !.text = text])
  \/ \E ok \in BOOLEAN : AddEmbed(ok)
  \/ \E model \in MultiModels, dbOk \in BOOLEAN : AddStore(model, dbOk)
  \/ \E id \in 0..MaxId : createDeleteHandler(P, id)
  \/ Tick

SpecMulti == InitMulti /\ [][NextMulti]_vars

\* the embeddings of memory id are one per configured model, each the model's
\* vector of the text with dims its length
OnePerModel(embs, id, text) ==
  /\ \A model \in MultiModels :
        \E e \in EmbeddingsOf(embs, id) :
          e.model = model /\ e.embedding = Embed(model, text) /\ e.dims = Len(e.embedding)
  /\ Cardinality(EmbeddingsOf(embs, id)) = Cardinality(MultiModels)

\* the add handler returns after the embedder gave a vector for every model
AddReturnsEmbedded == multiEmbedder /\ add.pc = "storing" /\ add'.pc = "done"

Lines == {ExportedRecord(id, None) : id \in 1..MaxId} \cup {Malformed, TooLong}
LinesData == [1..(MaxLines + 1) -> Lines]

NextLines ==
  \/ \E data \in LinesData, opts \in ImportOpts : createImportHandler(P, data, opts)
  \/ \E dbOk \in BOOLEAN : ImportScan(dbOk)
  \/ ImportRecord(TRUE, TRUE)

SpecLines == Init /\ [][NextLines]_vars

\* the import takes a line that is no JSON, and one of at most the scanner's size
Unparsed == imp.pc = "scan" /\ imp' # imp /\ ~Head(imp.input).ok
UnparsedShort == Unparsed /\ Head(imp.input) # TooLong

\* the line is counted as an error, nothing is written and the import goes on
CountedAndPassed ==
  /\ memories' = memories /\ embeddings' = embeddings
  /\ imp'.stats = [imp.stats EXCEPT !.total = @ + 1, !.errors = @ + 1]
  /\ imp'.input = Tail(imp.input)
  /\ imp'.err = ""
  /\ imp'.pc = IF Len(imp.input) > 1 THEN "scan" ELSE "done"

Balanced ==
  imp.pc = "done" /\ imp.err = "" =>
    imp.stats.total = imp.stats.imported + imp.stats.skipped + imp.stats.errors

\* C19 as stated: a malformed line increments errors, writes nothing and leaves the
\* later lines to be imported; the call succeeds and total = imported + skipped + errors.
C19_EveryLineIndependent ==
  /\ [][Unparsed => CountedAndPassed]_vars
  /\ [](imp.pc = "done" => imp.err = "" /\ Balanced)

\* C19 amended: the same for a malformed line of at most the scanner's 10 MB; a
\* longer line, and nothing else, ends the import with the error "scan input".
C19_ShortLinesIndependent ==
  /\ [][UnparsedShort => CountedAndPassed]_vars
  /\ [][imp.pc = "scan" /\ imp'.err # "" => Head(imp.input) = TooLong]_vars
  /\ []Balanced

C19_Witness ==
  /\ imp.pc = "record" /\ ~imp.opts.skipExisting
  /\ imp.stats.total = 2 /\ imp.stats.errors = 1

\* a step of an import called with dryRun = true
DryStep == imp.opts.dryRun /\ imp.pc \in {"scan", "record"} /\ imp' # imp

\* C20: an import with dryRun = true writes nothing, whatever its input: memories
\* and embeddings stay as they were at every step, while every line the scanner
\* yields is counted in total and as imported or, when malformed, as an error.
C20_DryRunWritesNothing ==
  [][DryStep =>
       /\ memories' = memories /\ embeddings' = embeddings /\ nextId' = nextId
       /\ imp.pc = "scan"
       /\ Head(imp.input) # TooLong =>
             imp'.stats = IF Head(imp.input).ok
                            THEN [imp.stats EXCEPT !.total = @ + 1, !.imported = @ + 1]
                            ELSE [imp.stats EXCEPT !.total = @ + 1, !.errors = @ + 1]]_vars

C20_Witness ==
  /\ imp.pc = "done" /\ imp.opts.dryRun /\ imp.err = ""
  /\ imp.stats.imported = 1 /\ imp.stats.errors = 1
  /\ DOMAIN memories = {1}

\* ------------------------------------------------------------- import of stated dims
\* imports of records without an embedding and of a record whose embedding states
\* more dims than its vector has
WrongDims == Some([model |-> PrimaryModel, dims |-> 3, vector |-> << 4, 3 >>])
DimsLines == {ExportedRecord(id, None) : id \in 1..MaxId} \cup {ExportedRecord(1, WrongDims)}
DimsData == [1..(MaxLines + 1) -> DimsLines]

NextDims ==
  \/ \E data \in DimsData, opts \in ImportOpts : createImportHandler(P, data, opts)
  \/ \E dbOk \in BOOLEAN : ImportScan(dbOk)
  \/ ImportRecord(TRUE, TRUE)

SpecDims == Init /\ [][NextDims]_vars

DimsDiffer(line) ==
  /\ line.ok /\ line.rec.embedding # None
  /\ line.rec.embedding[1].dims # Len(line.rec.embedding[1].vector)

RecordImported == imp.pc = "record" /\ imp'.stats.imported = imp.stats.imported + 1

\* C22: an import that stores a record without an embedding, or with
\* regenerateEmbeddings, computes a vector from the record's text and stores it with
\* the memory: every imported memory has an embedding afterwards.
C22_ImportedHasEmbedding ==
  [][RecordImported =>
       LET record == Head(imp.input).rec
       IN /\ EmbeddingsOf(embeddings', record.id) # {}
          /\ record.embedding = None \/ imp.opts.regenerate =>
                \E e \in EmbeddingsOf(embeddings', record.id) :
                  e.embedding = Embed(PrimaryModel, record.text)]_vars

\* the memory a record names is stored in the partition of the import
RecordExists ==
  LET record == Overridden(Head(imp.input), imp.p)
  IN memoryExists(memories, record.id, record.tenant_id, record.workspace_id)

\* C23: with skipExisting a record whose id exists in the partition is counted as
\* skipped and the memory and its embeddings stay as they are; without skipExisting
\* the record overwrites the mutable fields of the stored memory.
C23_SkipOrOverwrite ==
  /\ [][ImportScan(TRUE) /\ Head(imp.input).ok /\ ~imp.opts.dryRun
           /\ imp.opts.skipExisting /\ RecordExists =>
         /\ imp'.stats = [imp.stats EXCEPT !.total = @ + 1, !.skipped = @ + 1]
         /\ imp'.pc # "record"
         /\ memories' = memories /\ embeddings' = embeddings]_vars
  /\ [][ImportRecord(TRUE, TRUE) /\ ~imp.opts.skipExisting /\ RecordExists =>
         LET record == Overridden(Head(imp.input), imp.p)
             stored == memories'[record.id]
         IN /\ imp'.stats = [imp.stats EXCEPT !.imported = @ + 1]
            /\ stored.kind = record.kind /\ stored.text = record.text
            /\ stored.source = record.source /\ stored.updated_at = record.updated_at
            /\ stored.importance = record.importance
            /\ stored.ttl_days = record.ttl_days]_vars

\* ------------------------------------------------------------- export
\* a server with the multi-model embedder: memories of partition P with none, one
\* or two embeddings, exported with their embeddings
NextExport ==
  \/ \E text \in {"a", "b"} : createAddHandler(P, [NoArgs EXCEPT !.text = text])
  \/ \E ok \in BOOLEAN : AddEmbed(ok)
  \/ \E model \in MultiModels, dbOk \in BOOLEAN : AddStore(model, dbOk)
  \/ \E pick \in [DOMAIN memories -> MultiModels] :
        createExportHandler(P, ExportEverything, pick)

SpecExport == InitMulti /\ [][NextExport]_vars

\* C24: with includeEmbeddings the vector in each exported record is the one stored
\* for the primary model, also for a memory with embeddings under several models; a
\* memory without an embedding is exported without one.
C24_ExportsPrimaryVector ==
  [][\A pick \in [DOMAIN memories -> MultiModels] :
       createExportHandler(P, ExportEverything, pick) =>
         \A i \in 1..Len(exp'.data) :
           LET record == exp'.data[i].rec
               stored == EmbeddingsOf(embeddings, record.id)
           IN /\ stored = {} => record.embedding = None
              /\ \A e \in stored :
                    e.model = PrimaryModel =>
                      record.embedding =
                        Some([model |-> e.model, dims |-> e.dims, vector |-> e.embedding])]_vars

\* ------------------------------------------------------------- export filters
\* memories of two kinds, of partition P and of partition Q, added without an
\* embedding, deleted and exported with a kind filter and a limit
ExportArgs == [includeEmbeddings : BOOLEAN, kind : {"", "fact"}, limit : {-1, 0, 1, 2}]

NextKinds ==
  \/ \E p \in Partitions, kind \in {"", "fact"} :
        createAddHandler(p, [NoArgs EXCEPT !.text = "a", !.kind = kind])
  \/ AddEmbed(FALSE)
  \/ \E id \in 1..MaxId : createDeleteHandler(P, id)
  \/ \E args \in ExportArgs :
        createExportHandler(P, args, [id \in DOMAIN memories |-> PrimaryModel])

SpecKinds == Init /\ [][NextKinds]_vars

\* the memories of partition p that the export with the kind filter found stored
Exportable(p, kind) ==
  {id \in DOMAIN original.memories :
     /\ InPartition(original.memories[id], p)
     /\ kind = "" \/ original.memories[id].kind = kind}

FirstBatchSize == 1
SecondBatchSize == 2
PassCfgs == {[NoReembed.cfg EXCEPT !.batchSize = FirstBatchSize, !.targetModel = t,
                                   !.deleteOld = d] :
               t \in {"", SecondModel}, d \in BOOLEAN}

\* the pass ran to its end and no memory failed in it
CleanPass(task) ==
  /\ task.pc = "done" /\ task.err = ""
  /\ task.stats.errors = 0
  /\ task.stats.processed = task.stats.total

SecondPass == re.cfg.batchSize = SecondBatchSize

NextPasses ==
  \/ re.pc = "idle" /\ createAddHandler(P, [NoArgs EXCEPT !.text = "a"])
  \/ \E ok \in BOOLEAN : AddEmbed(ok)
  \/ \E dbOk \in BOOLEAN : AddStore(PrimaryModel, dbOk)
  \/ \E cfg \in PassCfgs :
        re.pc = "idle" /\ add.pc \in {"idle", "done"} /\ ReembedAll(P, cfg, None)
  \/ CleanPass(re) /\ re.cfg.skipExisting
        /\ ReembedAll(P, [re.cfg EXCEPT !.batchSize = SecondBatchSize], None)
  \/ \E cancelled \in BOOLEAN : ReembedBatch(cancelled, FALSE)
  \/ \E checkOk, ok \in BOOLEAN : ReembedItem(checkOk, ok)
  \/ \E dbOk \in BOOLEAN : ReembedStore(dbOk)
  \/ \E dbOk \in BOOLEAN : ReembedDeleteOld(dbOk)

SpecPasses == Init /\ [][NextPasses]_vars

InitMigrate ==
  /\ memories = << >>
  /\ embeddings = {}
  /\ nextId = 1
  /\ now = 0
  /\ multiEmbedder = FALSE
  /\ add = Idle
  /\ upd = Idle
  /\ del = [id |-> 0, err |-> ""]
  /\ swept = 0
  /\ imp = NoImport
  /\ exp = NoExport
  /\ re = NoReembed
  /\ original = [memories |-> << >>, embeddings |-> {}]
  /\ srch = NoSearch
  /\ schema = {}
  /\ mig = NoMigrate
  /\ stdio = << >>
  /\ links = {}
  /\ rel = NoRelated
  /\ peer = Idle
  /\ sw = NewSweeper
  /\ proc = NoProcess

NextMigrate ==
  \/ Migrate
  \/ \E dbOk \in BOOLEAN : MigrateExec(dbOk)

SpecMigrate == InitMigrate /\ [][NextMigrate]_vars

\* C27: a run of the migration runner that finds the database fully migrated, and
\* keeps its connection, ends without an error and with the schema as it found it.
C27_RerunSucceeds ==
  mig.pc = "done" /\ mig.start = Migrated /\ mig.err # "connection" =>
    mig.err = "" /\ schema = Migrated

\* ------------------------------------------------------------- requests
\* the server of partition P reads lines of stdin: requests and notifications of
\* every method, with good and bad params, next to adds that fill the store
ToolParams == {RawParams(FALSE, "", 0), RawParams(TRUE, "memory.nope", 0),
               RawParams(TRUE, DeleteTool, 0), RawParams(TRUE, DeleteTool, 1)}
StdinLines ==
  {EmptyLine} \cup {Garbled(id) : id \in {None, Some(7)}}
  \cup {RequestLine(v, id, method, RawParams(FALSE, "", 0)) :
          v \in {JSONRPCVersion, "1.0"}, id \in {None, Some(7)},
          method \in {"initialize", "initialized", "notifications/initialized",
                      "tools/list", "ping"}}
  \cup {RequestLine(JSONRPCVersion, id, "tools/call", params) :
          id \in {None, Some(7)}, params \in ToolParams}

NextRequests ==
  \/ createAddHandler(P, [NoArgs EXCEPT !.text = "a"])
  \/ AddEmbed(FALSE)
  \/ \E line \in StdinLines, writeOk \in BOOLEAN : Run(line, writeOk)

SpecRequests == Init /\ [][NextRequests]_vars

\* C28: no response line is written for a line whose id is null, whatever its method
\* and whether handling it succeeds or fails, and for a request with a non-null id
\* one response carrying that id is written (as long as stdout takes the write).
C28_NotificationsUnanswered ==
  \A i \in 1..Len(stdio) :
    LET line == stdio[i].line
    IN ~line.empty /\ line.parses /\ stdio[i].writeOk =>
         IF line.id = None THEN stdio[i].written = None
         ELSE stdio[i].written # None /\ stdio[i].written[1].id = line.id

\* ------------------------------------------------------------- related memories
\* memories of partitions P and Q are added and linked to entities, and the memories
\* related to one of them are asked for; nothing is deleted
EntityIds == {1, 2}
RelatedKs == {0, 1, 2}

NextRelated ==
  \/ \E p \in Partitions : createAddHandler(p, [NoArgs EXCEPT !.text = "a"])
  \/ AddEmbed(FALSE)
  \/ \E id \in 1..MaxId, e \in EntityIds : LinkMemoryEntity(id, e)
  \/ \E id \in 1..MaxId, k \in RelatedKs : GetRelated(P, id, k)

SpecRelated == Init /\ [][NextRelated]_vars

\* the entities linked to a memory, and the score the specification gives a memory
\* against the source
EntitiesOf(id) == {l.entity_id : l \in {r \in links : r.memory_id = id}}
SharedScore(id, memoryID) ==
  LET src == Cardinality(EntitiesOf(memoryID))
  IN Rat(Cardinality(EntitiesOf(id) \cap EntitiesOf(memoryID)), IF src > 1 THEN src ELSE 1)

\* C29: related(memoryId, k) returns memories of the partition other than the source
\* that share an entity with it, each scored shared / max(src_entity_count, 1), the k
\* highest-scoring of them in descending score order, ties by ascending id.
C29_RelatedScores ==
  [][\A id \in 1..MaxId, k \in RelatedKs :
       GetRelated(P, id, k) =>
         LET results == rel'.results
             sharing == {i \in DOMAIN memories :
                           /\ i # id /\ InPartition(memories[i], P)
                           /\ EntitiesOf(i) \cap EntitiesOf(id) # {}}
             limit == IF k <= 0 THEN DefaultLimit ELSE k
             Before(a, b) ==
               \/ RatLess(SharedScore(b, id), SharedScore(a, id))
               \/ RatEqual(SharedScore(a, id), SharedScore(b, id)) /\ a < b
         IN /\ \A i \in 1..Len(results) :
                  /\ results[i].id \in sharing
                  /\ results[i].score = SharedScore(results[i].id, id)
            /\ Len(results) = IF Cardinality(sharing) < limit THEN Cardinality(sharing)
                              ELSE limit
            /\ \A i, j \in 1..Len(results) :
                  i < j => Before(results[i].id, results[j].id)
            /\ \A i \in 1..Len(results) :
                  \A o \in sharing \ {results[j].id : j \in 1..Len(results)} :
                    Before(results[i].id, o)]_vars

\* ------------------------------------------------------------- concurrent updates
\* two update calls on the memories of partition P, each changing the text, run
\* statement by statement in any interleaving; every embedding call and every upsert
\* succeeds
NextRace ==
  \/ createAddHandler(P, [NoArgs EXCEPT !.text = "a"])
  \/ AddEmbed(TRUE)
  \/ AddStore(PrimaryModel, TRUE)
  \/ \E id \in 1..MaxId : createUpdateHandler(P, id, [NoPatch EXCEPT !.text = Some("b")])
  \/ UpdateEmbed(TRUE)
  \/ UpdateStore(PrimaryModel, TRUE)
  \/ \E id \in 1..MaxId : PeerUpdate(P, id, [NoPatch EXCEPT !.text = Some("c")])
  \/ PeerEmbed(TRUE)
  \/ PeerStore(PrimaryModel, TRUE)

SpecRace == Init /\ [][NextRace]_vars

\* C30: once two update calls that changed the text of the same memory, and whose
\* embedding regenerations succeeded, have both returned, the memory's stored
\* embedding under the primary model is the embedding of its stored text.
C30_EmbeddingOfFinalText ==
  /\ upd.pc = "done" /\ upd.err = "" /\ upd.embedCalls = 1 /\ upd.failed = {}
  /\ peer.pc = "done" /\ peer.err = "" /\ peer.embedCalls = 1 /\ peer.failed = {}
  /\ upd.id = peer.id
  => \A e \in EmbeddingsOf(embeddings, upd.id) :
       e.model = PrimaryModel =>
         e.embedding = Embed(PrimaryModel, memories[upd.id].text)

\* ------------------------------------------------------------- re-embed under writes
\* a re-embed job over partition P, reporting to a progress callback, while memories
\* are deleted by the handler and by the sweeper and new ones are added. The memories
\* added before the job starts have text "a", those added during it text "b", so the
\* text tells which memories were there when the job began.
VisitCfgs == {[NoReembed.cfg EXCEPT !.batchSize = b, !.skipExisting = FALSE] :
                b \in {FirstBatchSize, SecondBatchSize}}

NextVisit ==
  \/ re.pc = "idle" /\ createAddHandler(P, AllAddArgs)
  \/ re.pc \notin {"idle", "done"}
        /\ createAddHandler(P, [NoArgs EXCEPT !.text = "b"])
  \/ AddEmbed(FALSE)
  \/ \E id \in 1..MaxId : createDeleteHandler(P, id)
  \/ runSweep(P)
  \/ Tick
  \/ \E cfg \in VisitCfgs :
        re.pc = "idle" /\ add.pc \in {"idle", "done"} /\ ReembedAll(P, cfg, Some(<< >>))
  \/ ReembedBatch(FALSE, FALSE)
  \/ \E ok \in BOOLEAN : ReembedItem(TRUE, ok)
  \/ \E dbOk \in BOOLEAN : ReembedStore(dbOk)

SpecVisit == Init /\ [][NextVisit]_vars

\* how often the job has reported the memory to its callback
Visits(id) ==
  IF re.progress = None THEN 0
  ELSE Cardinality({i \in 1..Len(re.progress[1]) : re.progress[1][i] = id})

\* C31: when the job has run to its end, every memory of the partition that was
\* there when it started and is still there has been visited exactly once, whatever
\* was deleted or added meanwhile.
C31_SurvivorsVisitedOnce ==
  re.pc = "done" /\ re.err = "" =>
    \A id \in DOMAIN memories :
      InPartition(memories[id], P) /\ memories[id].text = "a" => Visits(id) = 1

\* ------------------------------------------------------------- shutdown
\* run() with the sweeper enabled, from the start of the sweeper to its return, with
\* memories that expire as the clock advances; a signal may arrive at any time
NextShutdown ==
  \/ proc.pc = "serving" /\ createAddHandler(P, AllAddArgs)
  \/ AddEmbed(FALSE)
  \/ Tick
  \/ RunStart
  \/ \E eof \in BOOLEAN : RunReturned(eof)
  \/ RunStop
  \/ RunExit
  \/ Cancel
  \/ \E l \in 1..MaxStarts : TickerFire(l)
  \/ \E l \in 1..MaxStarts, dbOk \in BOOLEAN : LoopSweep(l, dbOk)
  \/ \E l \in 1..MaxStarts : LoopExit(l)
  \/ StopReturn("run")

SpecShutdown == Init /\ [][NextShutdown]_vars

\* every step of run() and of the sweeper's goroutine is taken when it stays possible;
\* nothing obliges a signal, a tick or the end of standard input to come
SpecShutdownFair ==
  /\ SpecShutdown
  /\ WF_vars(RunStart) /\ WF_vars(RunStop) /\ WF_vars(RunExit)
  /\ WF_vars(StopReturn("run"))
  /\ WF_vars(\E l \in 1..MaxStarts : LoopSweep(l, TRUE))
  /\ WF_vars(\E l \in 1..MaxStarts : LoopExit(l))

\* C32: with the sweeper enabled, once the request loop has ended at the end of
\* standard input, run() returns (unless a signal arrives first).
C32_ShutdownCompletes ==
  (proc.pc = "eof") ~> (proc.pc = "returned" \/ proc.cancelled)

\* ------------------------------------------------------------- Start and Stop
\* a sweeper on which Start and Stop are called from several goroutines, in any
\* order and any number of times up to MaxStarts loops, with a context that may be
\* cancelled at any moment and memories that expire
NextSweeper ==
  \/ createAddHandler(P, AllAddArgs)
  \/ AddEmbed(FALSE)
  \/ Tick
  \/ Start
  \/ Cancel
  \/ \E l \in 1..MaxStarts : TickerFire(l)
  \/ \E l \in 1..MaxStarts, dbOk \in BOOLEAN : LoopSweep(l, dbOk)
  \/ \E l \in 1..MaxStarts : LoopExit(l)
  \/ \E c \in Callers : StopEnter(c)
  \/ \E c \in Callers : StopReturn(c)

SpecSweeper == Init /\ [][NextSweeper]_vars

SpecSweeperFair ==
  /\ SpecSweeper
  /\ WF_vars(\E l \in 1..MaxStarts : LoopSweep(l, TRUE))
  /\ WF_vars(\E l \in 1..MaxStarts : LoopExit(l))
  /\ \A c \in Callers : WF_vars(StopReturn(c))

\* the loops that Start has launched and that have not exited
Live == {l \in DOMAIN sw.loops : sw.loops[l].pc # "exited"}

\* C33 as stated: once the context is cancelled the loop exits without another
\* call of runSweep, running becomes false, no done channel is closed twice and every
\* Stop that waits returns.
C33_StopsWithoutSweep ==
  /\ [](~sw.late)
  /\ proc.cancelled ~> (Live = {} /\ ~sw.running)
  /\ [](\A ch \in DOMAIN sw.closes : sw.closes[ch] <= 1)
  /\ \A c \in Callers :
       (proc.cancelled /\ sw.stops[c].pc = "waiting") ~> (sw.stops[c].pc = "returned")

\* C33 amended: once the context is cancelled every loop exits, running becomes false,
\* the done channel of each loop is closed exactly once and every Stop that waits
\* returns; a call of runSweep made after the cancellation deletes nothing.
C33_StopsSweepingNothing ==
  /\ [][proc.cancelled /\ (\E l \in 1..MaxStarts, dbOk \in BOOLEAN : LoopSweep(l, dbOk))
          => memories' = memories /\ embeddings' = embeddings]_vars
  /\ proc.cancelled ~> (Live = {} /\ ~sw.running)
  /\ [](\A ch \in DOMAIN sw.closes :
          /\ sw.closes[ch] <= 1
          /\ sw.loops[ch].pc = "exited" <=> sw.closes[ch] = 1)
  /\ \A c \in Callers :
       (proc.cancelled /\ sw.stops[c].pc = "waiting") ~> (sw.stops[c].pc = "returned")

C33_Witness ==
  /\ proc.cancelled /\ sw.late /\ Live = {} /\ ~sw.running
  /\ sw.made = 1 /\ sw.closes[1] = 1
  /\ \A c \in Callers : sw.stops[c] = [pc |-> "returned", done |-> 1]

\* C34: at most one loop is live at a time, running is true exactly while a loop
\* that Start launched has not exited, and a Start issued while the sweeper is
\* running launches nothing and leaves the sweeper as it is.
C34_OneLoop ==
  /\ [](Cardinality(Live) <= 1)
  /\ [](sw.running <=> Live # {})
  /\ [][Start /\ sw.running => sw' = [sw EXCEPT !.refused = TRUE]]_vars

C34_Witness ==
  /\ sw.refused /\ sw.running /\ sw.made = 2 /\ Live = {2}
  /\ \E c \in Callers : sw.stops[c] = [pc |-> "waiting", done |-> 2]

\* ------------------------------------------------------------- cancelled re-embed
\* a re-embed job over the memories of partition P whose context is cancelled at some
\* point: the batch check sees it, or the page query, the existence check, the
\* gateway call or the upsert that is running fails with it
CancelCfgs == {[NoReembed.cfg EXCEPT !.batchSize = b, !.skipExisting = k] :
                 b \in {FirstBatchSize, SecondBatchSize}, k \in BOOLEAN}

NextCancel ==
  \/ re.pc = "idle" /\ createAddHandler(P, [NoArgs EXCEPT !.text = "a"])
  \/ \E ok \in BOOLEAN : AddEmbed(ok)
  \/ AddStore(PrimaryModel, TRUE)
  \/ \E cfg \in CancelCfgs :
        re.pc = "idle" /\ add.pc \in {"idle", "done"} /\ ReembedAll(P, cfg, Some(<< >>))
  \/ \E cancelled, interrupted \in BOOLEAN : ReembedBatch(cancelled, interrupted)
  \/ \E checkOk, ok \in BOOLEAN : ReembedItem(checkOk, ok)
  \/ \E dbOk \in BOOLEAN : ReembedStore(dbOk)

SpecCancel == Init /\ [][NextCancel]_vars

\* C35: a job that ends on the cancellation of its context returns statistics, not
\* nil, whose processed count is the number of memories it has visited.
C35_PartialStatistics ==
  re.pc = "done" /\ re.err # "" =>
    /\ ~re.nilStats
    /\ re.stats.processed = Len(re.progress[1])

\* ------------------------------------------------------------- delete-old
\* a server with the multi-model embedder fills partition P, its memories ending with
\* embeddings under none, one or both models; then a re-embed job with
\* DeleteOldEmbeddings runs, with or without SkipExisting, and nothing else writes.
\* Every DELETE of old embeddings succeeds.
DeleteOldCfgs == {[NoReembed.cfg EXCEPT !.batchSize = FirstBatchSize, !.deleteOld = TRUE,
                                        !.targetModel = t, !.skipExisting = k] :
                    t \in {"", SecondModel}, k \in BOOLEAN}

NextDeleteOld ==
  \/ re.pc = "idle" /\ createAddHandler(P, [NoArgs EXCEPT !.text = "a"])
  \/ \E ok \in BOOLEAN : AddEmbed(ok)
  \/ \E model \in MultiModels, dbOk \in BOOLEAN : AddStore(model, dbOk)
  \/ \E cfg \in DeleteOldCfgs :
        re.pc = "idle" /\ add.pc \in {"idle", "done"} /\ ReembedAll(P, cfg, None)
  \/ ReembedBatch(FALSE, FALSE)
  \/ \E ok \in BOOLEAN : ReembedItem(TRUE, ok)
  \/ \E dbOk \in BOOLEAN : ReembedStore(dbOk)
  \/ ReembedDeleteOld(TRUE)

SpecDeleteOld == InitMulti /\ [][NextDeleteOld]_vars

\* every memory of partition p has one embedding, the one under the model
OnlyModel(p, model) ==
  \A id \in DOMAIN memories :
    InPartition(memories[id], p) =>
      /\ Cardinality(EmbeddingsOf(embeddings, id)) = 1
      /\ \A e \in EmbeddingsOf(embeddings, id) : e.model = model

C37_AddAfterImportFresh ==
  [][\A p \in Partitions :
       createAddHandler(p, [NoArgs EXCEPT !.text = "a"]) =>
         /\ add'.err = ""
         /\ add'.id \notin DOMAIN memories]_vars

\* ------------------------------------------------------------- atomic records
\* memories are added to P, then well-formed records are imported over them or beside
\* them, with or without regenerateEmbeddings; the embedder, Begin and Commit may fail
AtomicLines ==
  {ExportedRecord(id, e) : id \in 1..MaxId, e \in {None, EmbeddingOf(PrimaryModel, "b")}}

AtomicData == UNION {[1..n -> AtomicLines] : n \in 1..MaxLines}

AtomicOpts == {[NoImport.opts EXCEPT !.regenerate = r] : r \in BOOLEAN}

NextAtomic ==
  \/ imp.pc = "idle" /\ createAddHandler(P, [NoArgs EXCEPT !.text = "a"])
  \/ \E ok \in BOOLEAN : AddEmbed(ok)
  \/ AddStore(PrimaryModel, TRUE)
  \/ \E data \in AtomicData, opts \in AtomicOpts :
        add.pc \in {"idle", "done"} /\ createImportHandler(P, data, opts)
  \/ ImportScan(TRUE)
  \/ \E embedOk, dbOk \in BOOLEAN : ImportRecord(embedOk, dbOk)

SpecAtomic == Init /\ [][NextAtomic]_vars

\* C38: a record whose embedding cannot be generated, or whose transaction does not
\* begin or commit, is counted in errors; and every record counted in errors, the one
\* whose embedding upsert fails included, leaves memories and embeddings as they were
\* before it and is not counted in imported.
C38_RecordAtomic ==
  [][\A embedOk, dbOk \in BOOLEAN :
       ImportRecord(embedOk, dbOk) =>
         /\ (imp.opts.regenerate /\ ~embedOk) \/ ~dbOk =>
               imp'.stats.errors = imp.stats.errors + 1
         /\ imp'.stats.errors = imp.stats.errors + 1 =>
               /\ memories' = memories
               /\ embeddings' = embeddings
               /\ imp'.stats.imported = imp.stats.imported
         /\ imp'.stats.errors = imp.stats.errors \/ imp'.stats.imported = imp.stats.imported]_vars

\* a record that would have overwritten memory 1 failed: the memory has its old text
\* and its embedding, and the import reports one error and nothing imported
C38_Witness ==
  /\ imp.pc = "done" /\ imp.stats.total = 1 /\ imp.stats.errors = 1
  /\ imp.stats.imported = 0
  /\ 1 \in DOMAIN memories /\ memories[1].text = "a"
  /\ EmbeddingsOf(embeddings, 1) # {}

\* ------------------------------------------------------------- model names
\* C39: every embedding row the re-embed engine writes carries the name of the model
\* that computed its vector, the provider's embedding model, with a target model
\* configured or taken from the provider.
C39_StoredUnderProducingModel ==
  [][\A dbOk \in BOOLEAN :
       ReembedStore(dbOk) =>
         \A e \in embeddings' \ embeddings :
            /\ e.embedding = Embed(e.model, memories[e.memory_id].text)
            /\ e.model = PrimaryModel]_vars

\* ------------------------------------------------------------- empty result sets
\* the results are the first limit rows of the set, in the set's order, each with the
\* score the store gave it
RowsOf(results, rows, limit) ==
  /\ Len(results) = IF Len(rows) <= limit THEN Len(rows) ELSE limit
  /\ \A i \in 1..Len(results) :
        /\ results[i].id = rows[i].id
        /\ results[i].score.n * Unit = rows[i].score * results[i].score.d

\* hybrid searches of the searcher, with limit 1 and the default limit, over
\* memories that the query matches by text ("a") or not ("z"), embedded or not
EmptyParams ==
  {[NoParams EXCEPT !.query = "a", !.limit = l, !.hybrid = TRUE] : l \in {1, DefaultLimit}}

NextEmpty ==
  \/ \E text \in {"a", "z"} : createAddHandler(P, [NoArgs EXCEPT !.text = text])
  \/ \E ok \in BOOLEAN : AddEmbed(ok)
  \/ \E model \in MultiModels : AddStore(model, TRUE)
  \/ \E id \in 1..MaxId : createDeleteHandler(P, id)
  \/ \E params \in EmptyParams : SearchCall(P, None, params, DefaultAlpha, TRUE)

SpecEmpty == Init /\ [][NextEmpty]_vars

\* C40: a hybrid search whose query is embedded returns without error when one of
\* its result sets is empty: the empty list when both are, and else the rows of the
\* other set, scores unmodified, cut to limit.
C40_EmptySets ==
  [][/\ \E params \in EmptyParams : SearchCall(P, None, params, DefaultAlpha, TRUE)
     /\ VectorSet(srch'.params) = << >> \/ LexicalSet(srch'.params) = << >>
     => /\ srch'.pc = "done" /\ srch'.err = ""
        /\ RowsOf(srch'.results,
                  VectorSet(srch'.params) \o LexicalSet(srch'.params),
                  EffectiveLimit(srch'.params))]_vars

\* a search with limit 1 found two memories by vector and none by text, and returned
\* the nearer one
C40_Witness ==
  /\ srch.pc = "done" /\ srch.err = "" /\ srch.params.hybrid
  /\ srch.params.limit = 1
  /\ LexicalSet(srch.params) = << >>
  /\ Len(VectorSet(srch.params)) = 2
  /\ Len(srch.results) = 1
  /\ srch.results[1].id = VectorSet(srch.params)[1].id

====
